---- MODULE Spec2Model ----
(***************************************************************************)
(* Internship Verification & Matching Engine (VidyaMitra backend).         *)
(*                                                                         *)
(* The engines are methods of VerificationService and MatchingService.     *)
(* Each call is modelled as a frame: the arguments it was invoked with     *)
(* (args), where the call stands (pc) and the value it returned (result).  *)
(* Strings the code inspects character by character (lower(), strip(),     *)
(* substring tests) are sequences of one-character strings; strings the    *)
(* code only passes around are TLA+ strings.  Python floats are IEEE-754   *)
(* binary64 values computed with round-to-nearest-even.                    *)
(***************************************************************************)
EXTENDS Integers, Sequences, FiniteSets, TLC

VARIABLES pc, args, result, semester_mapping, store

vars == <<pc, args, result, semester_mapping, store>>

\* An optional argument: Python's None, or a supplied value
None == [is_none |-> TRUE, value |-> <<>>]

Some(v) == [is_none |-> FALSE, value |-> v]

\* The frame of a call that has not returned yet
NoResult == [pending |-> TRUE]

----------------------------------------------------------------------------
\* Bounded input domains

\* all sequences over S of length at most n
SeqsUpTo(S, n) == UNION {[1..k -> S] : k \in 0..n}

\* the sequences of SeqsUpTo(S, n) that repeat no element
DistinctSeqsUpTo(S, n) ==
    {s \in SeqsUpTo(S, n) : \A i, j \in 1..Len(s) : i # j => s[i] # s[j]}

\* the elements of a sequence
Range(s) == {s[i] : i \in 1..Len(s)}

----------------------------------------------------------------------------
\* Python str.lower() and str.strip() on character sequences

UpperChars == <<"A","B","C","D","E","F","G","H","I","J","K","L","M",
                "N","O","P","Q","R","S","T","U","V","W","X","Y","Z">>

LowerChars == <<"a","b","c","d","e","f","g","h","i","j","k","l","m",
                "n","o","p","q","r","s","t","u","v","w","x","y","z">>

\* the case mappings of the ASCII letters
ToLower == [c \in {UpperChars[i] : i \in 1..26} |->
               LowerChars[CHOOSE i \in 1..26 : UpperChars[i] = c]]

ToUpper == [c \in {LowerChars[i] : i \in 1..26} |->
               UpperChars[CHOOSE i \in 1..26 : LowerChars[i] = c]]

LowerChar(c) == IF c \in DOMAIN ToLower THEN ToLower[c] ELSE c

StrLower(s) == [i \in 1..Len(s) |-> LowerChar(s[i])]

UpperChar(c) == IF c \in DOMAIN ToUpper THEN ToUpper[c] ELSE c

\* Python's str.capitalize(): first character upper, the rest lower
StrCapitalize(s) ==
    [i \in 1..Len(s) |-> IF i = 1 THEN UpperChar(s[i]) ELSE LowerChar(s[i])]

Whitespace == {" ", "\t", "\n", "\r"}

RECURSIVE LStrip(_)
LStrip(s) ==
    IF s # <<>> /\ Head(s) \in Whitespace THEN LStrip(Tail(s)) ELSE s

RECURSIVE RStrip(_)
RStrip(s) ==
    IF s # <<>> /\ s[Len(s)] \in Whitespace
    THEN RStrip(SubSeq(s, 1, Len(s) - 1))
    ELSE s

StrStrip(s) == RStrip(LStrip(s))

\* Python's "sub in s" on strings
StrContains(sub, s) ==
    \E i \in 0..(Len(s) - Len(sub)) : SubSeq(s, i + 1, i + Len(sub)) = sub

----------------------------------------------------------------------------
\* IEEE-754 binary64 arithmetic on non-negative values.
\* A natural number is a little-endian sequence of limbs in base 2^14; a
\* float is [m |-> natural below 2^53, e |-> exponent], value m * 2^e.

Base == 16384

LimbBits == 14

MantBits == 53

\* 2^n for n below LimbBits
Pow2(n) == <<1, 2, 4, 8, 16, 32, 64, 128, 256, 512, 1024, 2048, 4096,
             8192>>[n + 1]

RECURSIVE BStripZeros(_)
BStripZeros(a) ==
    IF a # <<>> /\ a[Len(a)] = 0
    THEN BStripZeros(SubSeq(a, 1, Len(a) - 1))
    ELSE a

RECURSIVE BAddC(_, _, _)
BAddC(a, b, c) ==
    IF a = <<>> /\ b = <<>>
    THEN (IF c = 0 THEN <<>> ELSE <<c>>)
    ELSE LET x == (IF a = <<>> THEN 0 ELSE Head(a))
                  + (IF b = <<>> THEN 0 ELSE Head(b)) + c
         IN  <<x % Base>> \o BAddC(IF a = <<>> THEN <<>> ELSE Tail(a),
                                   IF b = <<>> THEN <<>> ELSE Tail(b),
                                   x \div Base)

BAdd(a, b) == BAddC(a, b, 0)

\* the k-th column of the schoolbook product: the sum of a[i] * b[j] over
\* i + j = k + 1 (at most four products for 53-bit factors, so below 2^31)
RECURSIVE BMulColumn(_, _, _, _)
BMulColumn(a, b, k, i) ==
    IF i > Len(a) \/ i > k THEN 0
    ELSE (IF k + 1 - i <= Len(b) THEN a[i] * b[k + 1 - i] ELSE 0)
         + BMulColumn(a, b, k, i + 1)

\* carries the columns into limbs
RECURSIVE BCarry(_, _, _)
BCarry(cols, i, c) ==
    IF i > Len(cols)
    THEN (IF c = 0 THEN <<>> ELSE <<c % Base>> \o BCarry(cols, i, c \div Base))
    ELSE <<(cols[i] + c) % Base>>
         \o BCarry(cols, i + 1, (cols[i] + c) \div Base)

BMul(a, b) ==
    IF a = <<>> \/ b = <<>> THEN <<>>
    ELSE BCarry([k \in 1..(Len(a) + Len(b) - 1) |-> BMulColumn(a, b, k, 1)],
                1, 0)

RECURSIVE SmallBitLen(_)
SmallBitLen(x) == IF x = 0 THEN 0 ELSE 1 + SmallBitLen(x \div 2)

BitLen(a) ==
    LET s == BStripZeros(a)
    IN  IF s = <<>> THEN 0
        ELSE (Len(s) - 1) * LimbBits + SmallBitLen(s[Len(s)])

\* a \div 2^k, with lost = TRUE iff a non-zero bit was shifted out
BShr(a, k) ==
    LET nl == k \div LimbBits
        d  == Pow2(k % LimbBits)
        n  == Len(a)
        Limb(i) == IF i <= n THEN a[i] ELSE 0
    IN  [q    |-> BStripZeros([i \in 1..(IF nl < n THEN n - nl ELSE 0) |->
                                  (Limb(nl + i) \div d)
                                  + (Limb(nl + i + 1) % d) * (Base \div d)]),
         lost |-> \/ \E i \in 1..(IF nl < n THEN nl ELSE n) : a[i] # 0
                  \/ nl < n /\ a[nl + 1] % d # 0]

\* a * 2^k
BShl(a, k) ==
    LET nl == k \div LimbBits
        m  == Pow2(k % LimbBits)
        n  == Len(a)
        Limb(i) == IF 1 <= i /\ i <= n THEN a[i] ELSE 0
    IN  BStripZeros([i \in 1..(nl + n + 1) |->
                        IF i <= nl THEN 0
                        ELSE ((Limb(i - nl) * m) % Base)
                             + ((Limb(i - nl - 1) * m) \div Base)])

BIsOdd(a) == a # <<>> /\ a[1] % 2 = 1

\* the binary64 nearest to n * 2^e (+ a positive amount below 2^e when
\* sticky), ties to even
FRound(n, e, sticky) ==
    LET len == BitLen(n)
    IN  IF len <= MantBits
        THEN [m |-> BStripZeros(n), e |-> e]
        ELSE LET k     == len - MantBits
                 upper == BShr(n, k - 1)
                 guard == BIsOdd(upper.q)
                 m0    == BShr(upper.q, 1).q
                 rest  == upper.lost \/ sticky
                 up    == guard /\ (rest \/ BIsOdd(m0))
                 m1    == IF up THEN BStripZeros(BAdd(m0, <<1>>)) ELSE m0
             IN  IF up /\ BitLen(m1) > MantBits
                 THEN [m |-> BShr(m1, 1).q, e |-> e + k + 1]
                 ELSE [m |-> m1, e |-> e + k]

FZero == [m |-> <<>>, e |-> 0]

\* float(i) for a small non-negative integer
FFromInt(i) == [m |-> BStripZeros(<<i % Base, i \div Base>>), e |-> 0]

\* the five fraction limbs of a / b after the integer part, and the
\* last remainder
RECURSIVE FracLimbs(_, _, _)
FracLimbs(rem, b, n) ==
    IF n = 0 THEN [q |-> <<>>, r |-> rem]
    ELSE LET nxt == FracLimbs((rem * Base) % b, b, n - 1)
         IN  [q |-> nxt.q \o <<(rem * Base) \div b>>, r |-> nxt.r]

FracLimbCount == 5

\* Python's a / b on non-negative ints (true division), correctly rounded;
\* b below 2^17 and a \div b below 2^28 keep every step within 32 bits
FDivInt(a, b) ==
    LET fr == FracLimbs(a % b, b, FracLimbCount)
        ip == a \div b
    IN  FRound(fr.q \o <<ip % Base, ip \div Base>>,
               -(FracLimbCount * LimbBits), fr.r # 0)

FMul(x, y) == FRound(BMul(x.m, y.m), x.e + y.e, FALSE)

FAdd(x, y) ==
    IF x.m = <<>> THEN y
    ELSE IF y.m = <<>> THEN x
    ELSE LET e == IF x.e < y.e THEN x.e ELSE y.e
         IN  FRound(BAdd(BShl(x.m, x.e - e), BShl(y.m, y.e - e)), e, FALSE)

\* a > b on naturals without leading zero limbs
RECURSIVE BGreater(_, _)
BGreater(a, b) ==
    IF Len(a) # Len(b) THEN Len(a) > Len(b)
    ELSE IF a = <<>> THEN FALSE
    ELSE IF a[Len(a)] # b[Len(b)] THEN a[Len(a)] > b[Len(b)]
    ELSE BGreater(SubSeq(a, 1, Len(a) - 1), SubSeq(b, 1, Len(b) - 1))

\* x > y on floats
FGreater(x, y) ==
    LET e == IF x.e < y.e THEN x.e ELSE y.e
    IN  BGreater(BStripZeros(BShl(x.m, x.e - e)),
                 BStripZeros(BShl(y.m, y.e - e)))

BToInt(a) == IF a = <<>> THEN 0
             ELSE IF Len(a) = 1 THEN a[1] ELSE a[1] + Base * a[2]

\* Python's int(x) for a non-negative float below 2^28
FToInt(x) ==
    IF x.e >= 0 THEN BToInt(BShl(x.m, x.e)) ELSE BToInt(BShr(x.m, -x.e).q)

----------------------------------------------------------------------------
\* CalendarService: class-level table.  focus is kept as a character
\* sequence because the deadline descriptions lower-case it.

F_SkillBuilding == <<"S","k","i","l","l"," ","B","u","i","l","d","i","n","g">>

F_Summer == <<"S","u","m","m","e","r"," ","I","n","t","e","r","n","s","h","i","p","s">>

F_WinterSummer == <<"W","i","n","t","e","r","/","S","u","m","m","e","r"," ","I",
                     "n","t","e","r","n","s","h","i","p","s">>

F_FinalYear == <<"F","i","n","a","l"," ","Y","e","a","r"," ","I","n","t","e",
                  "r","n","s","h","i","p","s">>

F_PrePlacement == <<"P","r","e","-","P","l","a","c","e","m","e","n","t">>

SkillBuildingEntry(description, recommendation) ==
    [focus          |-> F_SkillBuilding,
     description    |-> description,
     internships    |-> <<>>,
     recommendation |-> recommendation]

\* a slip: the two month lists change places
InternshipEntry_months_swapped(focus, description, apply_window, internship_period, apply_months, internship_months, recommendation) ==
    [focus             |-> focus,
     description       |-> description,
     apply_window      |-> apply_window,
     internship_period |-> internship_period,
     apply_months      |-> internship_months,
     internship_months |-> apply_months,
     recommendation    |-> recommendation]

InternshipEntry(focus, description, apply_window, internship_period, apply_months, internship_months, recommendation) ==
    [focus             |-> focus,
     description       |-> description,
     apply_window      |-> apply_window,
     internship_period |-> internship_period,
     apply_months      |-> apply_months,
     internship_months |-> internship_months,
     recommendation    |-> recommendation]

SEMESTER_MAPPING == <<
    SkillBuildingEntry(
        "Focus on building foundational skills and academic performance",
        "Too early for internships. Focus on coursework and skill development."),
    SkillBuildingEntry(
        "Continue skill development and explore areas of interest",
        "Too early for internships. Build projects and learn new technologies."),
    InternshipEntry(F_Summer,
        "Apply for summer internships to gain industry experience",
        "Jan-Mar", "May-Jul", <<1, 2, 3>>, <<5, 6, 7>>,
        "Apply for Summer Internships between January and March for May-July positions."),
    InternshipEntry(F_Summer,
        "Prime time for summer internship applications",
        "Jan-Mar", "May-Jul", <<1, 2, 3>>, <<5, 6, 7>>,
        "Apply for Summer Internships between January and March for May-July positions."),
    InternshipEntry(F_WinterSummer,
        "Apply for winter internships or prepare for next summer",
        "Aug-Oct", "Dec-Jan", <<8, 9, 10>>, <<12, 1>>,
        "Apply for Winter Internships between August and October for December-January positions."),
    InternshipEntry(F_WinterSummer,
        "Continue applying for winter internships or summer opportunities",
        "Aug-Oct", "Dec-Jan", <<8, 9, 10>>, <<12, 1>>,
        "Apply for Winter Internships between August and October for December-January positions."),
    InternshipEntry(F_FinalYear,
        "Apply for final year internships and pre-placement opportunities",
        "Jul-Sep", "Jan-Apr", <<7, 8, 9>>, <<1, 2, 3, 4>>,
        "Apply for Final Year Internships between July and September for January-April positions."),
    InternshipEntry(F_PrePlacement,
        "Focus on placement preparation and final projects",
        "Ongoing", "Flexible",
        [i \in 1..12 |-> i], [i \in 1..12 |-> i],
        "Focus on placement preparation. Apply for short-term or flexible internships as needed.")
    >>

----------------------------------------------------------------------------
\* State outside the call frames: the contents of the class attribute
\* CalendarService.SEMESTER_MAPPING (a dict of dicts holding list objects,
\* shared by every call in the process) and the database tables the router
\* caches results in.

\* unique_keys: whether the tables declare their cache key unique; the
\* schema is not part of the source, so the caching model allows both
\* internship_listings: the verification columns of the listings' rows
EmptyStore ==
    [skill_matches |-> <<>>, verification_results |-> <<>>,
     internship_listings |-> [id \in {"i1", "i2"} |-> None],
     unique_keys |-> FALSE]

SharedInit == semester_mapping = SEMESTER_MAPPING /\ store = EmptyStore

----------------------------------------------------------------------------
\* MatchingService: class-level tables (ordered as the dict literals are)

LEARNING_RESOURCES == <<
    \* "python"
    [k |-> <<"p","y","t","h","o","n">>,
     v |-> <<"Python Official Tutorial (python.org)", "Coursera: Python for Everybody", "Real Python Tutorials">>],
    \* "java"
    [k |-> <<"j","a","v","a">>,
     v |-> <<"Oracle Java Tutorials", "Coursera: Java Programming and Software Engineering", "Codecademy: Learn Java">>],
    \* "javascript"
    [k |-> <<"j","a","v","a","s","c","r","i","p","t">>,
     v |-> <<"MDN Web Docs: JavaScript Guide", "freeCodeCamp: JavaScript Algorithms", "Eloquent JavaScript (book)">>],
    \* "c++"
    [k |-> <<"c","+","+">>,
     v |-> <<"LearnCpp.com", "Coursera: C++ For C Programmers", "C++ Reference Documentation">>],
    \* "c"
    [k |-> <<"c">>,
     v |-> <<"Learn-C.org", "CS50: Introduction to Computer Science", "The C Programming Language (book)">>],
    \* "react"
    [k |-> <<"r","e","a","c","t">>,
     v |-> <<"React Official Documentation", "freeCodeCamp: Front End Development Libraries", "Scrimba: Learn React">>],
    \* "angular"
    [k |-> <<"a","n","g","u","l","a","r">>,
     v |-> <<"Angular Official Tutorial", "Udemy: Angular - The Complete Guide", "Angular University Courses">>],
    \* "vue"
    [k |-> <<"v","u","e">>,
     v |-> <<"Vue.js Official Guide", "Vue Mastery Courses", "freeCodeCamp: Vue.js Course">>],
    \* "node.js"
    [k |-> <<"n","o","d","e",".","j","s">>,
     v |-> <<"Node.js Official Guides", "freeCodeCamp: Back End Development", "The Net Ninja: Node.js Tutorial">>],
    \* "django"
    [k |-> <<"d","j","a","n","g","o">>,
     v |-> <<"Django Official Tutorial", "Django for Beginners (book)", "Coursera: Django for Everybody">>],
    \* "flask"
    [k |-> <<"f","l","a","s","k">>,
     v |-> <<"Flask Official Tutorial", "Miguel Grinberg's Flask Mega-Tutorial", "Real Python: Flask Tutorials">>],
    \* "sql"
    [k |-> <<"s","q","l">>,
     v |-> <<"SQLBolt Interactive Tutorial", "Khan Academy: Intro to SQL", "Mode Analytics: SQL Tutorial">>],
    \* "mongodb"
    [k |-> <<"m","o","n","g","o","d","b">>,
     v |-> <<"MongoDB University", "MongoDB Official Documentation", "freeCodeCamp: MongoDB Course">>],
    \* "postgresql"
    [k |-> <<"p","o","s","t","g","r","e","s","q","l">>,
     v |-> <<"PostgreSQL Official Tutorial", "PostgreSQL Exercises", "Udemy: The Complete PostgreSQL Bootcamp">>],
    \* "machine learning"
    [k |-> <<"m","a","c","h","i","n","e"," ","l","e","a","r","n","i","n","g">>,
     v |-> <<"Coursera: Machine Learning by Andrew Ng", "fast.ai: Practical Deep Learning", "Google's Machine Learning Crash Course">>],
    \* "data analysis"
    [k |-> <<"d","a","t","a"," ","a","n","a","l","y","s","i","s">>,
     v |-> <<"Coursera: Google Data Analytics Certificate", "DataCamp: Data Analyst Track", "Kaggle Learn: Data Analysis">>],
    \* "pandas"
    [k |-> <<"p","a","n","d","a","s">>,
     v |-> <<"Pandas Official Documentation", "Kaggle Learn: Pandas", "Real Python: Pandas Tutorials">>],
    \* "numpy"
    [k |-> <<"n","u","m","p","y">>,
     v |-> <<"NumPy Official Tutorial", "Coursera: Applied Data Science with Python", "DataCamp: Introduction to NumPy">>],
    \* "aws"
    [k |-> <<"a","w","s">>,
     v |-> <<"AWS Training and Certification", "A Cloud Guru: AWS Certified Solutions Architect", "freeCodeCamp: AWS Certified Cloud Practitioner">>],
    \* "docker"
    [k |-> <<"d","o","c","k","e","r">>,
     v |-> <<"Docker Official Get Started Guide", "Docker Mastery Course", "Play with Docker Classroom">>],
    \* "kubernetes"
    [k |-> <<"k","u","b","e","r","n","e","t","e","s">>,
     v |-> <<"Kubernetes Official Tutorial", "Kubernetes for Beginners (KodeKloud)", "CNCF Kubernetes Fundamentals">>],
    \* "git"
    [k |-> <<"g","i","t">>,
     v |-> <<"Git Official Documentation", "GitHub Learning Lab", "Atlassian Git Tutorial">>],
    \* "rest api"
    [k |-> <<"r","e","s","t"," ","a","p","i">>,
     v |-> <<"RESTful API Design Tutorial", "Postman Learning Center", "freeCodeCamp: APIs for Beginners">>],
    \* "graphql"
    [k |-> <<"g","r","a","p","h","q","l">>,
     v |-> <<"GraphQL Official Tutorial", "How to GraphQL", "Apollo GraphQL Tutorials">>],
    \* "default"
    [k |-> <<"d","e","f","a","u","l","t">>,
     v |-> <<"Coursera: Search for relevant courses", "Udemy: Search for skill-specific courses", "YouTube: Search for tutorials", "Official documentation for the technology">>]
>>

LEARNING_TIMES == <<
    [k |-> <<"e","a","s","y">>, v |-> "1-2 weeks"],  \* "easy"
    [k |-> <<"m","e","d","i","u","m">>, v |-> "3-4 weeks"],  \* "medium"
    [k |-> <<"h","a","r","d">>, v |-> "6-8 weeks"]   \* "hard"
>>

SKILL_DIFFICULTY == <<
    [k |-> <<"g","i","t">>, v |-> <<"e","a","s","y">>],  \* "git"
    [k |-> <<"h","t","m","l">>, v |-> <<"e","a","s","y">>],  \* "html"
    [k |-> <<"c","s","s">>, v |-> <<"e","a","s","y">>],  \* "css"
    [k |-> <<"s","q","l">>, v |-> <<"e","a","s","y">>],  \* "sql"
    [k |-> <<"p","y","t","h","o","n">>, v |-> <<"m","e","d","i","u","m">>],  \* "python"
    [k |-> <<"j","a","v","a","s","c","r","i","p","t">>, v |-> <<"m","e","d","i","u","m">>],  \* "javascript"
    [k |-> <<"r","e","a","c","t">>, v |-> <<"m","e","d","i","u","m">>],  \* "react"
    [k |-> <<"n","o","d","e",".","j","s">>, v |-> <<"m","e","d","i","u","m">>],  \* "node.js"
    [k |-> <<"d","j","a","n","g","o">>, v |-> <<"m","e","d","i","u","m">>],  \* "django"
    [k |-> <<"f","l","a","s","k">>, v |-> <<"m","e","d","i","u","m">>],  \* "flask"
    [k |-> <<"r","e","s","t"," ","a","p","i">>, v |-> <<"m","e","d","i","u","m">>],  \* "rest api"
    [k |-> <<"m","o","n","g","o","d","b">>, v |-> <<"m","e","d","i","u","m">>],  \* "mongodb"
    [k |-> <<"p","o","s","t","g","r","e","s","q","l">>, v |-> <<"m","e","d","i","u","m">>],  \* "postgresql"
    [k |-> <<"m","a","c","h","i","n","e"," ","l","e","a","r","n","i","n","g">>, v |-> <<"h","a","r","d">>],  \* "machine learning"
    [k |-> <<"d","a","t","a"," ","s","c","i","e","n","c","e">>, v |-> <<"h","a","r","d">>],  \* "data science"
    [k |-> <<"k","u","b","e","r","n","e","t","e","s">>, v |-> <<"h","a","r","d">>],  \* "kubernetes"
    [k |-> <<"a","w","s">>, v |-> <<"h","a","r","d">>],  \* "aws"
    [k |-> <<"s","y","s","t","e","m"," ","d","e","s","i","g","n">>, v |-> <<"h","a","r","d">>],  \* "system design"
    [k |-> <<"d","i","s","t","r","i","b","u","t","e","d"," ","s","y","s","t","e","m","s">>, v |-> <<"h","a","r","d">>]   \* "distributed systems"
>>

\* dict lookup: the value stored under key k, or dflt
RECURSIVE DictGet(_, _, _)
DictGet(d, k, dflt) ==
    IF d = <<>> THEN dflt
    ELSE IF Head(d).k = k THEN Head(d).v
    ELSE DictGet(Tail(d), k, dflt)

DictHas(d, k) == \E i \in 1..Len(d) : d[i].k = k

----------------------------------------------------------------------------
\* MatchingService: helpers

_normalize_skill(skill) == StrStrip(StrLower(skill))

\* a slip: the table is looked up with the raw skill name
_get_skill_difficulty_raw(skill) ==
    DictGet(SKILL_DIFFICULTY, skill, <<"m","e","d","i","u","m">>)

_get_skill_difficulty(skill) ==
    DictGet(SKILL_DIFFICULTY, _normalize_skill(skill), <<"m","e","d","i","u","m">>)

Min(a, b) == IF a < b THEN a ELSE b

Max(a, b) == IF a > b THEN a ELSE b

\* the partial-match loop over the keys of LEARNING_RESOURCES, from key i on
RECURSIVE PartialMatch(_, _)
PartialMatch(normalized_skill, i) ==
    IF i > Len(LEARNING_RESOURCES)
    THEN DictGet(LEARNING_RESOURCES, <<"d","e","f","a","u","l","t">>, <<>>)
    ELSE LET key == LEARNING_RESOURCES[i].k
         IN  IF /\ Len(key) >= 3
                /\ (StrContains(key, normalized_skill)
                    \/ StrContains(normalized_skill, key))
                /\ Min(Len(key), Len(normalized_skill)) >= 3
             THEN LEARNING_RESOURCES[i].v
             ELSE PartialMatch(normalized_skill, i + 1)

_get_learning_resources(skill) ==
    LET normalized_skill == _normalize_skill(skill)
    IN  IF DictHas(LEARNING_RESOURCES, normalized_skill)
        THEN DictGet(LEARNING_RESOURCES, normalized_skill, <<>>)
        ELSE PartialMatch(normalized_skill, 1)

\* a slip: the skill is compared with the raw required names
_prioritize_skill_raw(skill, required_skills) ==
    IF skill \in Range(required_skills) THEN "High" ELSE "Medium"

_prioritize_skill(skill, required_skills) ==
    LET normalized_skill    == _normalize_skill(skill)
        normalized_required == [i \in 1..Len(required_skills) |->
                                   _normalize_skill(required_skills[i])]
    IN  IF normalized_skill \in Range(normalized_required)
        THEN "High"
        ELSE "Medium"

\* Python's "x or []" for an optional list
OrEmpty(x) == IF x.is_none THEN <<>> ELSE x.value

\* the float literals 0.7 and 0.3, and float(100)
F07 == FDivInt(7, 10)

F03 == FDivInt(3, 10)

F100 == FFromInt(100)

----------------------------------------------------------------------------
\* MatchingService.calculate_skill_match

NormalizedSet(skills) == {_normalize_skill(skills[i]) : i \in 1..Len(skills)}

\* a slip: the skills the user holds are taken out of the matching ones
matching_required_without_user(user_skills_normalized, required_skills_normalized) ==
    required_skills_normalized \ user_skills_normalized

matching_required(user_skills_normalized, required_skills_normalized) ==
    user_skills_normalized \cap required_skills_normalized

\* a slip: every required skill is reported missing
missing_required_all(user_skills_normalized, required_skills_normalized) ==
    required_skills_normalized

missing_required(user_skills_normalized, required_skills_normalized) ==
    required_skills_normalized \ user_skills_normalized

matching_preferred(user_skills_normalized, preferred_skills_normalized) ==
    IF preferred_skills_normalized # {}
    THEN user_skills_normalized \cap preferred_skills_normalized
    ELSE {}

\* a slip: the preferred matches are left out of the matching list
all_matching_required_only(matching_req, matching_pref) == matching_req

all_matching(matching_req, matching_pref) == matching_req \cup matching_pref

\* (len(matching) / len(total)) * 100, a float
match_pct(matching, total) ==
    FMul(FDivInt(Cardinality(matching), Cardinality(total)), F100)

\* the weighted percentage before clamping
weighted_percentage(required_match_pct, preferred_match_pct, has_preferred) ==
    IF has_preferred
    THEN FToInt(FAdd(FMul(required_match_pct, F07),
                     FMul(preferred_match_pct, F03)))
    ELSE FToInt(required_match_pct)

\* a slip: the empty user list is tested before the empty required list
calculate_skill_match_user_checked_first(user_skills, required_skills, preferred_skills) ==
    IF user_skills = <<>>
    THEN [match_percentage |-> 0,
          matching_skills  |-> <<>>,
          missing_skills   |-> required_skills]
    ELSE IF required_skills = <<>>
    THEN [match_percentage |-> 100,
          matching_skills  |-> <<>>,
          missing_skills   |-> <<>>]
    ELSE
    LET user_n      == NormalizedSet(user_skills)
        required_n  == NormalizedSet(required_skills)
        preferred_n == NormalizedSet(OrEmpty(preferred_skills))
        matching_req == matching_required(user_n, required_n)
        missing_req  == missing_required(user_n, required_n)
        required_match_pct == match_pct(matching_req, required_n)
        matching_pref == matching_preferred(user_n, preferred_n)
        preferred_match_pct ==
            IF preferred_n # {}
            THEN match_pct(matching_pref, preferred_n)
            ELSE FZero
        match_percentage ==
            Max(0, Min(100, weighted_percentage(required_match_pct,
                                                preferred_match_pct,
                                                preferred_n # {})))
        matching == all_matching(matching_req, matching_pref)
    IN  [match_percentage |-> match_percentage,
         matching_skills  |->
             SelectSeq(required_skills \o OrEmpty(preferred_skills),
                       LAMBDA skill : _normalize_skill(skill) \in matching),
         missing_skills   |->
             SelectSeq(required_skills,
                       LAMBDA skill : _normalize_skill(skill) \in missing_req)]

calculate_skill_match(user_skills, required_skills, preferred_skills) ==
    IF required_skills = <<>>
    THEN [match_percentage |-> 100,
          matching_skills  |-> <<>>,
          missing_skills   |-> <<>>]
    ELSE IF user_skills = <<>>
    THEN [match_percentage |-> 0,
          matching_skills  |-> <<>>,
          missing_skills   |-> required_skills]
    ELSE
    LET user_n      == NormalizedSet(user_skills)
        required_n  == NormalizedSet(required_skills)
        preferred_n == NormalizedSet(OrEmpty(preferred_skills))
        matching_req == matching_required(user_n, required_n)
        missing_req  == missing_required(user_n, required_n)
        required_match_pct == match_pct(matching_req, required_n)
        matching_pref == matching_preferred(user_n, preferred_n)
        preferred_match_pct ==
            IF preferred_n # {}
            THEN match_pct(matching_pref, preferred_n)
            ELSE FZero
        match_percentage ==
            Max(0, Min(100, weighted_percentage(required_match_pct,
                                                preferred_match_pct,
                                                preferred_n # {})))
        matching == all_matching(matching_req, matching_pref)
    IN  [match_percentage |-> match_percentage,
         matching_skills  |->
             SelectSeq(required_skills \o OrEmpty(preferred_skills),
                       LAMBDA skill : _normalize_skill(skill) \in matching),
         missing_skills   |->
             SelectSeq(required_skills,
                       LAMBDA skill : _normalize_skill(skill) \in missing_req)]

----------------------------------------------------------------------------
\* Skill names the calls are exercised with

S_Python == <<"P","y","t","h","o","n">>

S_python_padded == <<" ","p","y","t","h","o","n"," ">>

S_SQL == <<"S","Q","L">>

S_React == <<"R","e","a","c","t">>

SkillPool == {S_Python, S_python_padded, S_SQL, S_React}

MaxUser == 2

MaxRequired == 2

MaxPreferred == 3

MatchInputs ==
    [user_skills      : DistinctSeqsUpTo(SkillPool, MaxUser),
     required_skills  : DistinctSeqsUpTo(SkillPool, MaxRequired),
     preferred_skills : {Some(p) : p \in DistinctSeqsUpTo(SkillPool, MaxPreferred)}
                        \cup {None}]

InitMatch ==
    /\ pc = "call"
    /\ args \in MatchInputs
    /\ result = NoResult
    /\ SharedInit

CallSkillMatch ==
    /\ pc = "call"
    /\ result' = calculate_skill_match(args.user_skills, args.required_skills,
                                       args.preferred_skills)
    /\ pc' = "return"
    /\ UNCHANGED <<args, semester_mapping, store>>

NextMatch == CallSkillMatch

SpecMatch == InitMatch /\ [][NextMatch]_vars

----------------------------------------------------------------------------
\* Python's list.sort(key=..., reverse=...): a stable sort.  keys[i] is the
\* key of items[i]; an item goes before another iff its key orders strictly
\* first, or the keys are equal and it came first in the list.

\* a slip: an unstable sort that turns equal keys around
ListSortTiesReversed(items, keys, reverse) ==
    LET n == Len(items)
        Before(j, i) == IF reverse THEN keys[j] > keys[i] ELSE keys[j] < keys[i]
        Rank(i) == Cardinality({j \in 1..n :
                       Before(j, i) \/ (keys[j] = keys[i] /\ j > i)}) + 1
    IN  [p \in 1..n |-> items[CHOOSE i \in 1..n : Rank(i) = p]]

ListSort(items, keys, reverse) ==
    LET n == Len(items)
        Before(j, i) == IF reverse THEN keys[j] > keys[i] ELSE keys[j] < keys[i]
        Rank(i) == Cardinality({j \in 1..n :
                       Before(j, i) \/ (keys[j] = keys[i] /\ j < i)}) + 1
    IN  [p \in 1..n |-> items[CHOOSE i \in 1..n : Rank(i) = p]]

----------------------------------------------------------------------------
\* MatchingService.generate_learning_path

\* a slip: Medium ordered before High
priority_order_swapped(priority) ==
    CASE priority = "High"   -> 1
      [] priority = "Medium" -> 0
      [] priority = "Low"    -> 2
      [] OTHER               -> 3

\* priority_order.get(priority, 3)
priority_order(priority) ==
    CASE priority = "High"   -> 0
      [] priority = "Medium" -> 1
      [] priority = "Low"    -> 2
      [] OTHER               -> 3

\* the LearningPathItem built for one missing skill
LearningPathItem(skill, required_skills) ==
    LET difficulty == _get_skill_difficulty(skill)
    IN  [skill          |-> skill,
         estimated_time |-> DictGet(LEARNING_TIMES, difficulty, "3-4 weeks"),
         difficulty     |-> StrCapitalize(difficulty),
         resources      |-> _get_learning_resources(skill),
         priority       |-> _prioritize_skill(skill, required_skills)]

generate_learning_path(missing_skills, required_skills) ==
    IF missing_skills = <<>> THEN <<>>
    ELSE LET learning_path ==
                 [i \in 1..Len(missing_skills) |->
                     LearningPathItem(missing_skills[i], OrEmpty(required_skills))]
             keys == [i \in 1..Len(learning_path) |->
                         priority_order(learning_path[i].priority)]
         IN  ListSort(learning_path, keys, FALSE)

S_Git == <<"G","i","t">>

S_git_padded == <<" ","g","i","t"," ">>

S_AWS == <<"A","W","S">>

S_Rust == <<"R","u","s","t">>

S_React_js == <<"R","e","a","c","t",".","j","s">>

S_GIT == <<"G","I","T">>

S_aws_padded == <<"a","w","s"," ">>

MissingPool == {S_Git, S_git_padded, S_AWS, S_Rust, S_React_js}

PathRequiredPool == {S_GIT, S_aws_padded, S_Rust}

MaxMissing == 3

PathInputs ==
    [missing_skills  : SeqsUpTo(MissingPool, MaxMissing),
     required_skills : {Some(r) : r \in DistinctSeqsUpTo(PathRequiredPool,
                                                          MaxRequired)}
                       \cup {None}]

InitPath ==
    /\ pc = "call"
    /\ args \in PathInputs
    /\ result = NoResult
    /\ SharedInit

CallLearningPath ==
    /\ pc = "call"
    /\ result' = generate_learning_path(args.missing_skills,
                                        args.required_skills)
    /\ pc' = "return"
    /\ UNCHANGED <<args, semester_mapping, store>>

NextPath == CallLearningPath

SpecPath == InitPath /\ [][NextPath]_vars

----------------------------------------------------------------------------
\* MatchingService.rank_internships

\* a slip: the listing's preferred skills are not passed on
ranked_entry_without_preferred(user_profile, internship) ==
    LET match_result == calculate_skill_match(user_profile.skills,
                                              internship.required_skills,
                                              None)
    IN  [internship       |-> internship,
         match_percentage |-> match_result.match_percentage,
         matching_skills  |-> match_result.matching_skills,
         missing_skills   |-> match_result.missing_skills]

\* the body of the loop over the listings
ranked_entry(user_profile, internship) ==
    LET match_result == calculate_skill_match(user_profile.skills,
                                              internship.required_skills,
                                              Some(internship.preferred_skills))
    IN  [internship       |-> internship,
         match_percentage |-> match_result.match_percentage,
         matching_skills  |-> match_result.matching_skills,
         missing_skills   |-> match_result.missing_skills]

\* ranked_internships is built once by the loop, then sorted in place on
\* match_percentage, highest first
rank_internships(user_profile, internships) ==
    IF internships = <<>> THEN <<>>
    ELSE CHOOSE sorted \in
             {ListSort(ranked_internships,
                       [i \in 1..Len(ranked_internships) |->
                           ranked_internships[i].match_percentage],
                       TRUE) :
                  ranked_internships \in
                      {[i \in 1..Len(internships) |->
                           ranked_entry(user_profile, internships[i])]}} : TRUE

\* The listings the ranking is exercised with: two share an id, one has
\* no required skills
L_Backend == [id |-> "i1", required_skills |-> <<S_Python, S_SQL>>,
              preferred_skills |-> <<>>]

L_FullStack == [id |-> "i2", required_skills |-> <<S_python_padded>>,
                preferred_skills |-> <<S_React>>]

L_Frontend == [id |-> "i1", required_skills |-> <<S_React>>,
               preferred_skills |-> <<>>]

L_Open == [id |-> "i4", required_skills |-> <<>>,
           preferred_skills |-> <<S_SQL>>]

ListingPool == {L_Backend, L_FullStack, L_Frontend, L_Open}

MaxListings == 3

RankInputs ==
    [user_profile : [skills : DistinctSeqsUpTo(SkillPool, MaxUser)],
     internships  : SeqsUpTo(ListingPool, MaxListings)]

InitRank ==
    /\ pc = "call"
    /\ args \in RankInputs
    /\ result = NoResult
    /\ SharedInit

CallRankInternships ==
    /\ pc = "call"
    /\ result' = rank_internships(args.user_profile, args.internships)
    /\ pc' = "return"
    /\ UNCHANGED <<args, semester_mapping, store>>

NextRank == CallRankInternships

SpecRank == InitRank /\ [][NextRank]_vars

----------------------------------------------------------------------------
\* VerificationService: class-level tables

KNOWN_PLATFORMS == {
    <<"i","n","t","e","r","n","s","h","a","l","a">>,  \* "internshala"
    <<"l","i","n","k","e","d","i","n">>,  \* "linkedin"
    <<"w","e","l","l","f","o","u","n","d">>,  \* "wellfound"
    <<"a","i","c","t","e">>,  \* "aicte"
    <<"n","s","d","c">>,  \* "nsdc"
    <<"c","o","m","p","a","n","y"," ","c","a","r","e","e","r"," ","p","a","g","e">>,  \* "company career page"
    <<"c","o","m","p","a","n","y"," ","c","a","r","e","e","r","s">>,  \* "company careers"
    <<"n","a","u","k","r","i">>,  \* "naukri"
    <<"i","n","d","e","e","d">>,  \* "indeed"
    <<"g","l","a","s","s","d","o","o","r">>   \* "glassdoor"
}

NON_OFFICIAL_DOMAINS == {
    <<"g","m","a","i","l",".","c","o","m">>,  \* "gmail.com"
    <<"y","a","h","o","o",".","c","o","m">>,  \* "yahoo.com"
    <<"h","o","t","m","a","i","l",".","c","o","m">>,  \* "hotmail.com"
    <<"o","u","t","l","o","o","k",".","c","o","m">>,  \* "outlook.com"
    <<"r","e","d","i","f","f","m","a","i","l",".","c","o","m">>,  \* "rediffmail.com"
    <<"y","m","a","i","l",".","c","o","m">>   \* "ymail.com"
}

REGISTRATION_FEE_KEYWORDS == <<
    <<"r","e","g","i","s","t","r","a","t","i","o","n"," ","f","e","e">>,  \* "registration fee"
    <<"r","e","g","i","s","t","r","a","t","i","o","n"," ","c","h","a","r","g","e">>,  \* "registration charge"
    <<"e","n","r","o","l","l","m","e","n","t"," ","f","e","e">>,  \* "enrollment fee"
    <<"j","o","i","n","i","n","g"," ","f","e","e">>,  \* "joining fee"
    <<"a","p","p","l","i","c","a","t","i","o","n"," ","f","e","e">>,  \* "application fee"
    <<"p","r","o","c","e","s","s","i","n","g"," ","f","e","e">>,  \* "processing fee"
    <<"s","e","c","u","r","i","t","y"," ","d","e","p","o","s","i","t">>,  \* "security deposit"
    <<"r","e","f","u","n","d","a","b","l","e"," ","d","e","p","o","s","i","t">>,  \* "refundable deposit"
    <<"p","a","y"," ","t","o"," ","a","p","p","l","y">>,  \* "pay to apply"
    <<"p","a","y","m","e","n","t"," ","r","e","q","u","i","r","e","d">>   \* "payment required"
>>

WHATSAPP_ONLY_KEYWORDS == <<
    <<"w","h","a","t","s","a","p","p"," ","o","n","l","y">>,  \* "whatsapp only"
    <<"c","o","n","t","a","c","t"," ","o","n"," ","w","h","a","t","s","a","p","p">>,  \* "contact on whatsapp"
    <<"w","h","a","t","s","a","p","p"," ","f","o","r"," ","d","e","t","a","i","l","s">>,  \* "whatsapp for details"
    <<"m","e","s","s","a","g","e"," ","o","n"," ","w","h","a","t","s","a","p","p">>,  \* "message on whatsapp"
    <<"w","h","a","t","s","a","p","p"," ","n","u","m","b","e","r">>,  \* "whatsapp number"
    <<"d","m"," ","o","n"," ","w","h","a","t","s","a","p","p">>   \* "dm on whatsapp"
>>

VAGUE_DESCRIPTION_KEYWORDS == <<
    <<"v","a","r","i","o","u","s"," ","t","a","s","k","s">>,  \* "various tasks"
    <<"g","e","n","e","r","a","l"," ","w","o","r","k">>,  \* "general work"
    <<"m","i","s","c","e","l","l","a","n","e","o","u","s"," ","d","u","t","i","e","s">>,  \* "miscellaneous duties"
    <<"a","s"," ","a","s","s","i","g","n","e","d">>,  \* "as assigned"
    <<"o","t","h","e","r"," ","d","u","t","i","e","s">>,  \* "other duties"
    <<"f","l","e","x","i","b","l","e"," ","r","o","l","e">>,  \* "flexible role"
    <<"m","u","l","t","i","p","l","e"," ","r","e","s","p","o","n","s","i","b","i","l","i","t","i","e","s">>   \* "multiple responsibilities"
>>

\* the alternatives of the suffix pattern
\* \s+(pvt\.?|ltd\.?|inc\.?|corp\.?|llc|limited|private)$
CorporateSuffixes == {
    <<"p","v","t">>,
    <<"p","v","t",".">>,
    <<"l","t","d">>,
    <<"l","t","d",".">>,
    <<"i","n","c">>,
    <<"i","n","c",".">>,
    <<"c","o","r","p">>,
    <<"c","o","r","p",".">>,
    <<"l","l","c">>,
    <<"l","i","m","i","t","e","d">>,
    <<"p","r","i","v","a","t","e">>
}

\* tlds in check_domain_authenticity
tlds == {
    <<"c","o","m">>,
    <<"o","r","g">>,
    <<"n","e","t">>,
    <<"e","d","u">>,
    <<"g","o","v">>,
    <<"c","o">>,
    <<"i","n">>,
    <<"i","o">>,
    <<"a","i">>
}

----------------------------------------------------------------------------
\* String helpers of the verification checks

Digits == <<"0","1","2","3","4","5","6","7","8","9">>

IsDigit(c) == \E i \in 1..10 : Digits[i] = c

DigitVal(c) == (CHOOSE i \in 1..10 : Digits[i] = c) - 1

\* re.sub(r'[^a-z0-9]', '', s)
AlnumOnly(s) ==
    SelectSeq(s, LAMBDA c : IsDigit(c) \/ \E i \in 1..26 : LowerChars[i] = c)

EndsWith(s, t) ==
    Len(t) <= Len(s) /\ SubSeq(s, Len(s) - Len(t) + 1, Len(s)) = t

\* re.sub of the suffix pattern: one trailing corporate suffix and the
\* whitespace before it are removed
StripCorporateSuffix(s) ==
    LET Matches(t) == /\ EndsWith(s, t)
                      /\ Len(s) > Len(t)
                      /\ s[Len(s) - Len(t)] \in Whitespace
    IN  IF \E t \in CorporateSuffixes : Matches(t)
        THEN LET t == CHOOSE t \in CorporateSuffixes :
                          /\ Matches(t)
                          /\ \A t2 \in CorporateSuffixes :
                                 Matches(t2) => Len(t2) <= Len(t)
             IN  RStrip(SubSeq(s, 1, Len(s) - Len(t)))
        ELSE s

\* str.split(sep) for a one-character separator
RECURSIVE StrSplit(_, _)
StrSplit(s, sep) ==
    IF \E i \in 1..Len(s) : s[i] = sep
    THEN LET i == CHOOSE i \in 1..Len(s) :
                      s[i] = sep /\ \A j \in 1..(i - 1) : s[j] # sep
         IN  <<SubSeq(s, 1, i - 1)>> \o StrSplit(SubSeq(s, i + 1, Len(s)), sep)
    ELSE <<s>>

\* ' '.join(parts)
RECURSIVE StrJoin(_)
StrJoin(parts) ==
    IF parts = <<>> THEN <<>>
    ELSE IF Len(parts) = 1 THEN parts[1]
    ELSE parts[1] \o <<" ">> \o StrJoin(Tail(parts))

\* Python truthiness of an optional string
Truthy(opt) == ~opt.is_none /\ opt.value # <<>>

----------------------------------------------------------------------------
\* VerificationService.check_domain_authenticity

check_domain_authenticity(company, domain) ==
    IF ~Truthy(domain) THEN FALSE
    ELSE LET dom == StrStrip(StrLower(domain.value))
         IN  IF dom = <<>> THEN FALSE
             ELSE IF dom \in NON_OFFICIAL_DOMAINS THEN FALSE
             ELSE LET company_normalized ==
                          AlnumOnly(StripCorporateSuffix(
                                        StrStrip(StrLower(company))))
                      domain_parts == StrSplit(dom, ".")
                  IN  \E i \in 1..Len(domain_parts) :
                          /\ domain_parts[i] \notin tlds
                          /\ LET part_normalized == AlnumOnly(domain_parts[i])
                             IN  \/ StrContains(company_normalized,
                                                part_normalized)
                                 \/ StrContains(part_normalized,
                                                company_normalized)

\* a slip: a listing without a platform counts as listed on a known one
check_platform_legitimacy_absent_known(platform) ==
    IF ~Truthy(platform) THEN TRUE
    ELSE StrStrip(StrLower(platform.value)) \in KNOWN_PLATFORMS

\* VerificationService.check_platform_legitimacy
check_platform_legitimacy(platform) ==
    IF ~Truthy(platform) THEN FALSE
    ELSE StrStrip(StrLower(platform.value)) \in KNOWN_PLATFORMS

----------------------------------------------------------------------------
\* VerificationService.detect_red_flags

RedFlag(type, severity, description) ==
    [type |-> type, severity |-> severity, description |-> description]

\* the index of the last digit of the digit run that starts at s[i]
RECURSIVE DigitsEnd(_, _)
DigitsEnd(s, i) ==
    IF i + 1 <= Len(s) /\ IsDigit(s[i + 1]) THEN DigitsEnd(s, i + 1) ELSE i

\* (?:,\d+)* after a digit run ending at e
RECURSIVE CommaGroupsEnd(_, _)
CommaGroupsEnd(s, e) ==
    IF e + 2 <= Len(s) /\ s[e + 1] = "," /\ IsDigit(s[e + 2])
    THEN CommaGroupsEnd(s, DigitsEnd(s, e + 2))
    ELSE e

RECURSIVE DecVal(_)
DecVal(ds) ==
    IF ds = <<>> THEN 0
    ELSE 10 * DecVal(SubSeq(ds, 1, Len(ds) - 1)) + DigitVal(ds[Len(ds)])

RECURSIVE Pow10(_)
Pow10(n) == IF n = 0 THEN 1 ELSE 10 * Pow10(n - 1)

\* re.search(r'(rupee sign)?\s*(\d+(?:,\d+)*(?:\.\d+)?)\s*k?', stipend): the leftmost
\* match takes the number that starts at the first digit of the text;
\* the result is float(group(1).replace(',', '')), or no match
stipend_match(stipend) ==
    IF ~\E i \in 1..Len(stipend) : IsDigit(stipend[i])
    THEN [matched |-> FALSE, value |-> FZero]
    ELSE LET start == CHOOSE i \in 1..Len(stipend) :
                          /\ IsDigit(stipend[i])
                          /\ \A j \in 1..(i - 1) : ~IsDigit(stipend[j])
             e2    == CommaGroupsEnd(stipend, DigitsEnd(stipend, start))
             e3    == IF /\ e2 + 2 <= Len(stipend)
                         /\ stipend[e2 + 1] = "."
                         /\ IsDigit(stipend[e2 + 2])
                      THEN DigitsEnd(stipend, e2 + 2)
                      ELSE e2
             whole == SelectSeq(SubSeq(stipend, start, e2), IsDigit)
             frac  == SubSeq(stipend, e2 + 2, e3)
         IN  [matched |-> TRUE,
              value |-> IF frac = <<>>
                        THEN FFromInt(DecVal(whole))
                        ELSE FDivInt(DecVal(whole \o frac), Pow10(Len(frac)))]

\* stipend_value after the 'k' check
stipend_value(stipend) ==
    LET v == stipend_match(stipend).value
    IN  IF StrContains(<<"k">>, StrLower(stipend))
        THEN FMul(v, FFromInt(1000))
        ELSE v

\* a slip: one flag for every keyword found (the break is lost)
registration_fee_flags_every_keyword(combined_text) ==
    LET found == SelectSeq(REGISTRATION_FEE_KEYWORDS,
                           LAMBDA k : StrContains(k, combined_text))
    IN  [i \in 1..Len(found) |->
            RedFlag("registration_fee", "high",
                    "Asks for registration or enrollment fee")]

\* 1. registration fees: one flag at the first keyword found
registration_fee_flags(combined_text) ==
    IF \E i \in 1..Len(REGISTRATION_FEE_KEYWORDS) :
           StrContains(REGISTRATION_FEE_KEYWORDS[i], combined_text)
    THEN <<RedFlag("registration_fee", "high",
                   "Asks for registration or enrollment fee")>>
    ELSE <<>>

\* 2. WhatsApp-only contact
whatsapp_only_flags(combined_text) ==
    IF \E i \in 1..Len(WHATSAPP_ONLY_KEYWORDS) :
           StrContains(WHATSAPP_ONLY_KEYWORDS[i], combined_text)
    THEN <<RedFlag("whatsapp_only", "high",
                   "Uses WhatsApp as the only contact method")>>
    ELSE <<>>

\* 3. non-official email domain
non_official_email_flags(company_domain) ==
    IF Truthy(company_domain)
       /\ StrLower(company_domain.value) \in NON_OFFICIAL_DOMAINS
    THEN <<RedFlag("non_official_email", "high",
                   "Uses non-official email domain (Gmail, Yahoo, etc.)")>>
    ELSE <<>>

\* the stipend above which a listing is flagged
UnrealisticStipend == 50000

\* 4. unrealistic stipend (the description's amount is left out)
unrealistic_stipend_flags(stipend) ==
    IF stipend_match(stipend).matched
       /\ FGreater(stipend_value(stipend), FFromInt(UnrealisticStipend))
    THEN <<RedFlag("unrealistic_stipend", "medium",
                   "Unrealistically high stipend for internship")>>
    ELSE <<>>

\* a responsibility shorter than this counts as vague when it is the only one
ShortResponsibility == 50

\* a slip: one vague keyword is enough
vague_description_flags_one_keyword(responsibilities) ==
    IF responsibilities # <<>>
    THEN LET responsibilities_text == StrLower(StrJoin(responsibilities))
             vague_count ==
                 Cardinality({i \in 1..Len(VAGUE_DESCRIPTION_KEYWORDS) :
                     StrContains(VAGUE_DESCRIPTION_KEYWORDS[i],
                                 responsibilities_text)})
         IN  IF vague_count >= 1
                \/ (Len(responsibilities) = 1
                    /\ Len(responsibilities[1]) < ShortResponsibility)
             THEN <<RedFlag("vague_description", "medium",
                            "Job responsibilities are vague or poorly defined")>>
             ELSE <<>>
    ELSE <<RedFlag("vague_description", "medium",
                   "No job responsibilities specified")>>

\* 5. vague job descriptions
vague_description_flags(responsibilities) ==
    IF responsibilities # <<>>
    THEN LET responsibilities_text == StrLower(StrJoin(responsibilities))
             vague_count ==
                 Cardinality({i \in 1..Len(VAGUE_DESCRIPTION_KEYWORDS) :
                     StrContains(VAGUE_DESCRIPTION_KEYWORDS[i],
                                 responsibilities_text)})
         IN  IF vague_count >= 2
                \/ (Len(responsibilities) = 1
                    /\ Len(responsibilities[1]) < ShortResponsibility)
             THEN <<RedFlag("vague_description", "medium",
                            "Job responsibilities are vague or poorly defined")>>
             ELSE <<>>
    ELSE <<RedFlag("vague_description", "medium",
                   "No job responsibilities specified")>>

detect_red_flags(internship) ==
    LET title   == StrLower(internship.title)
        company == StrLower(internship.company)
        stipend == StrLower(internship.stipend)
        combined_text ==
            StrLower(title \o <<" ">> \o company \o <<" ">> \o stipend
                     \o <<" ">> \o StrJoin(internship.responsibilities))
    IN  registration_fee_flags(combined_text)
        \o whatsapp_only_flags(combined_text)
        \o non_official_email_flags(internship.company_domain)
        \o unrealistic_stipend_flags(stipend)
        \o vague_description_flags(internship.responsibilities)

----------------------------------------------------------------------------
\* VerificationService.calculate_trust_score

\* a slip: a low flag costs as much as a medium one
flag_penalty_low_as_medium(flag) ==
    CASE flag.severity = "high"   -> 20
      [] flag.severity = "medium" -> 10
      [] flag.severity = "low"    -> 10
      [] OTHER                    -> 0

\* what one red flag takes off the score
flag_penalty(flag) ==
    CASE flag.severity = "high"   -> 20
      [] flag.severity = "medium" -> 10
      [] flag.severity = "low"    -> 5
      [] OTHER                    -> 0

RECURSIVE SubtractFlags(_, _)
SubtractFlags(score, red_flags) ==
    IF red_flags = <<>> THEN score
    ELSE SubtractFlags(score - flag_penalty(Head(red_flags)), Tail(red_flags))

BaseScore == 50

calculate_trust_score(signals, red_flags) ==
    LET with_signals ==
            BaseScore + (IF signals.official_domain THEN 20 ELSE 0)
                      + (IF signals.known_platform THEN 20 ELSE 0)
                      + (IF signals.company_verified THEN 10 ELSE 0)
    IN  Max(0, Min(100, SubtractFlags(with_signals, red_flags)))

----------------------------------------------------------------------------
\* VerificationService.verify_internship

\* a slip: a score of exactly 80 is not Verified
classify_status_strict(trust_score) ==
    IF trust_score > 80 THEN "Verified"
    ELSE IF trust_score >= 50 THEN "Use Caution"
    ELSE "Potential Scam"

\* the status chosen from the trust score
classify_status(trust_score) ==
    IF trust_score >= 80 THEN "Verified"
    ELSE IF trust_score >= 50 THEN "Use Caution"
    ELSE "Potential Scam"

\* the lines that "\n".join(notes) puts together
_generate_verification_notes(signals, red_flags, trust_score) ==
    (IF signals.official_domain
     THEN <<"Official company domain verified">> ELSE <<>>)
    \o (IF signals.known_platform
        THEN <<"Listed on known platform">> ELSE <<>>)
    \o (IF signals.company_verified
        THEN <<"Company verified on external sources">> ELSE <<>>)
    \o (IF red_flags # <<>>
        THEN <<<<"red flag(s) detected:", Len(red_flags)>>>>
             \o [i \in 1..Len(red_flags) |-> red_flags[i].description]
        ELSE <<>>)
    \o (IF trust_score >= 80
        THEN <<"This internship appears legitimate and safe to apply.">>
        ELSE IF trust_score >= 50
        THEN <<"Exercise caution. Verify details before applying.">>
        ELSE <<"High risk of fraud. Avoid this internship.">>)

\* a slip: the company counts as verified
verify_internship_company_verified(internship) ==
    LET signals ==
            [official_domain  |-> check_domain_authenticity(
                                      internship.company,
                                      internship.company_domain),
             known_platform   |-> check_platform_legitimacy(
                                      internship.platform),
             company_verified |-> TRUE]
        red_flags   == detect_red_flags(internship)
        trust_score == calculate_trust_score(signals, red_flags)
    IN  [internship_id        |-> internship.id,
         status               |-> classify_status(trust_score),
         trust_score          |-> trust_score,
         verification_signals |-> signals,
         red_flags            |-> red_flags,
         verification_notes   |->
             _generate_verification_notes(signals, red_flags, trust_score)]

verify_internship(internship) ==
    LET signals ==
            [official_domain  |-> check_domain_authenticity(
                                      internship.company,
                                      internship.company_domain),
             known_platform   |-> check_platform_legitimacy(
                                      internship.platform),
             company_verified |-> FALSE]
        red_flags   == detect_red_flags(internship)
        trust_score == calculate_trust_score(signals, red_flags)
    IN  [internship_id        |-> internship.id,
         status               |-> classify_status(trust_score),
         trust_score          |-> trust_score,
         verification_signals |-> signals,
         red_flags            |-> red_flags,
         verification_notes   |->
             _generate_verification_notes(signals, red_flags, trust_score)]

----------------------------------------------------------------------------
\* The listings verify_internship is exercised with (the rupee sign is the
\* one-character element "RUPEE")

\* "TechCorp Pvt Ltd"
C_TechCorp ==
    <<"T","e","c","h","C","o","r","p"," ","P","v","t"," ","L","t","d">>

\* "Acme"
C_Acme ==
    <<"A","c","m","e">>

\* "gmail.com"
D_gmail ==
    <<"g","m","a","i","l",".","c","o","m">>

\* "Careers.TechCorp.com"
D_techcorp ==
    <<"C","a","r","e","e","r","s",".","T","e","c","h","C","o","r","p",".",
      "c","o","m">>

\* "example.org"
D_example ==
    <<"e","x","a","m","p","l","e",".","o","r","g">>

\* " LinkedIn "
P_LinkedIn ==
    <<" ","L","i","n","k","e","d","I","n"," ">>

\* "Telegram"
P_Telegram ==
    <<"T","e","l","e","g","r","a","m">>

\* "Intern"
T_Intern ==
    <<"I","n","t","e","r","n">>

\* "Unpaid"
St_Unpaid ==
    <<"U","n","p","a","i","d">>

\* "(rupee sign)60k"
St_60k ==
    <<"RUPEE","6","0","k">>

\* "20000 per month"
St_20000 ==
    <<"2","0","0","0","0"," ","p","e","r"," ","m","o","n","t","h">>

\* "50,000"
St_50000 ==
    <<"5","0",",","0","0","0">>

\* "Various tasks"
Rs_Short ==
    <<"V","a","r","i","o","u","s"," ","t","a","s","k","s">>

\* "Handle various tasks as assigned"
Rs_Vague1 ==
    <<"H","a","n","d","l","e"," ","v","a","r","i","o","u","s"," ","t","a",
      "s","k","s"," ","a","s"," ","a","s","s","i","g","n","e","d">>

\* "Other duties"
Rs_Vague2 ==
    <<"O","t","h","e","r"," ","d","u","t","i","e","s">>

\* "Pay the registration fee and contact on WhatsApp for the details of the role"
Rs_Scam ==
    <<"P","a","y"," ","t","h","e"," ","r","e","g","i","s","t","r","a","t",
      "i","o","n"," ","f","e","e"," ","a","n","d"," ","c","o","n","t","a",
      "c","t"," ","o","n"," ","W","h","a","t","s","A","p","p"," ","f","o",
      "r"," ","t","h","e"," ","d","e","t","a","i","l","s"," ","o","f"," ",
      "t","h","e"," ","r","o","l","e">>

\* "Build REST APIs"
Rs_Clear1 ==
    <<"B","u","i","l","d"," ","R","E","S","T"," ","A","P","I","s">>

\* "Write unit tests"
Rs_Clear2 ==
    <<"W","r","i","t","e"," ","u","n","i","t"," ","t","e","s","t","s">>

VerifyListings ==
    [id               : {"i1"},
     title            : {T_Intern},
     company          : {C_TechCorp, C_Acme},
     company_domain   : {None, Some(<<>>), Some(D_gmail), Some(D_techcorp),
                         Some(D_example)},
     platform         : {None, Some(<<>>), Some(P_LinkedIn), Some(P_Telegram)},
     stipend          : {St_Unpaid, St_60k, St_20000, St_50000},
     responsibilities : {<<>>, <<Rs_Short>>, <<Rs_Vague1, Rs_Vague2>>,
                         <<Rs_Scam>>, <<Rs_Clear1, Rs_Clear2>>}]

InitVerify ==
    /\ pc = "call"
    /\ args \in [internship : VerifyListings]
    /\ result = NoResult
    /\ SharedInit

CallVerifyInternship ==
    /\ pc = "call"
    /\ result' = verify_internship(args.internship)
    /\ pc' = "return"
    /\ UNCHANGED <<args, semester_mapping, store>>

NextVerify == CallVerifyInternship

SpecVerify == InitVerify /\ [][NextVerify]_vars

\* The signals and red flags calculate_trust_score is exercised with
FlagPool == {RedFlag("registration_fee", "high", "fee"),
             RedFlag("vague_description", "medium", "vague"),
             RedFlag("minor", "low", "minor")}

MaxFlags == 4

TrustInputs ==
    [signals   : [official_domain : BOOLEAN, known_platform : BOOLEAN,
                  company_verified : BOOLEAN],
     red_flags : SeqsUpTo(FlagPool, MaxFlags)]

InitTrust ==
    /\ pc = "call"
    /\ args \in TrustInputs
    /\ result = NoResult
    /\ SharedInit

CallTrustScore ==
    /\ pc = "call"
    /\ result' = calculate_trust_score(args.signals, args.red_flags)
    /\ pc' = "return"
    /\ UNCHANGED <<args, semester_mapping, store>>

NextTrust == CallTrustScore

SpecTrust == InitTrust /\ [][NextTrust]_vars

----------------------------------------------------------------------------
\* CalendarService: names and helpers of the calendar operations

\* month_names[m] of the source is month_names[m + 1] here
month_names == <<"", "January", "February", "March", "April", "May", "June",
                 "July", "August", "September", "October", "November",
                 "December">>

\* a raised ValueError
ValueError(message) == [raised |-> "ValueError", message |-> message]

HasRaised(r) == "raised" \in DOMAIN r

\* dict.get(key, []) on a table entry
GetList(entry, key) == IF key \in DOMAIN entry THEN entry[key] ELSE <<>>

\* min() and max() of a non-empty list of integers
ListMin(s) == CHOOSE m \in Range(s) : \A x \in Range(s) : m <= x

ListMax(s) == CHOOSE m \in Range(s) : \A x \in Range(s) : m >= x

\* the semester check shared by the three operations
InvalidSemester(semester) == ~(1 <= semester /\ semester <= 8)

SemesterError(semester) ==
    ValueError("Semester must be between 1 and 8, got " \o ToString(semester))

----------------------------------------------------------------------------
\* CalendarService._calculate_months_until_window

_calculate_months_until_window(current_month, apply_months) ==
    IF apply_months = <<>> THEN 0
    ELSE LET future_months ==
                 SelectSeq(apply_months, LAMBDA m : m > current_month)
         IN  IF future_months # <<>>
             THEN ListMin(future_months) - current_month
             ELSE (12 - current_month) + ListMin(apply_months)

----------------------------------------------------------------------------
\* CalendarService.get_upcoming_deadlines

\* a slip: the deadlines are ordered by calendar month alone
deadline_sort_key_no_wrap(month_number, current_month) == month_number

\* the sort key: a month before the current one counts as next year's
deadline_sort_key(month_number, current_month) ==
    IF month_number >= current_month THEN month_number
    ELSE month_number + 12

Deadline(type, month_number, description_prefix, calendar_info) ==
    [type         |-> type,
     month        |-> month_names[month_number + 1],
     month_number |-> month_number,
     description  |-> description_prefix \o StrLower(calendar_info.focus)]

\* the method body; self is the contents of SEMESTER_MAPPING at the time of
\* the call, now the clock reading of datetime.now(); current_month is
\* optional
get_upcoming_deadlines_self(self, semester, current_month_arg, now) ==
    IF InvalidSemester(semester) THEN SemesterError(semester)
    ELSE
    LET current_month == IF current_month_arg.is_none THEN now.month
                         ELSE current_month_arg.value
    IN  IF semester \in {1, 2} THEN <<>>
        ELSE
        LET calendar_info     == self[semester]
            apply_months      == GetList(calendar_info, "apply_months")
            internship_months == GetList(calendar_info, "internship_months")
            opens ==
                IF apply_months # <<>>
                   /\ (ListMin(apply_months) >= current_month
                       \/ ListMin(apply_months) < current_month)
                THEN <<Deadline("Application Window Opens",
                                ListMin(apply_months),
                                <<"S","t","a","r","t"," ","a","p","p","l","y","i","n","g"," ","f","o","r"," ">>,
                                calendar_info)>>
                ELSE <<>>
            closes ==
                IF apply_months # <<>>
                   /\ (ListMax(apply_months) >= current_month
                       \/ ListMax(apply_months) < current_month)
                THEN <<Deadline("Application Window Closes",
                                ListMax(apply_months),
                                <<"L","a","s","t"," ","m","o","n","t","h"," ","t","o"," ","a","p","p","l","y"," ","f","o","r"," ">>,
                                calendar_info)>>
                ELSE <<>>
            starts ==
                IF internship_months # <<>>
                THEN <<Deadline("Internship Starts",
                                ListMin(internship_months),
                                <<"E","x","p","e","c","t","e","d"," ","s","t","a","r","t"," ","d","a","t","e"," ","f","o","r"," ">>,
                                calendar_info)>>
                ELSE <<>>
        IN  CHOOSE sorted \in
                {ListSort(deadlines,
                          [i \in 1..Len(deadlines) |->
                              deadline_sort_key(deadlines[i].month_number,
                                                current_month)],
                          FALSE) :
                     deadlines \in {opens \o closes \o starts}} : TRUE

\* the method on the class table as the module defines it
get_upcoming_deadlines(semester, current_month_arg, now) ==
    get_upcoming_deadlines_self(SEMESTER_MAPPING, semester, current_month_arg,
                                now)

----------------------------------------------------------------------------
\* CalendarService.get_calendar_for_semester

\* a slip: month 0 passes the range check
InvalidMonth_zero_allowed(current_month) ==
    ~(0 <= current_month /\ current_month <= 12)

InvalidMonth(current_month) == ~(1 <= current_month /\ current_month <= 12)

\* a slip: the "opens in" message is used only up to one month ahead
window_status_one_month(months_until_window) ==
    IF months_until_window <= 1
    THEN "Application window opens in " \o ToString(months_until_window)
         \o " month(s) - Start preparing!"
    ELSE "Preparation phase - " \o ToString(months_until_window)
         \o " month(s) until application window"

\* the two messages that carry months_until_window
window_status(months_until_window) ==
    IF months_until_window <= 2
    THEN "Application window opens in " \o ToString(months_until_window)
         \o " month(s) - Start preparing!"
    ELSE "Preparation phase - " \o ToString(months_until_window)
         \o " month(s) until application window"

current_status(semester, calendar_info, current_month) ==
    IF semester \in {1, 2} THEN "Focus on skill development"
    ELSE LET apply_months      == GetList(calendar_info, "apply_months")
             internship_months == GetList(calendar_info, "internship_months")
         IN  IF current_month \in Range(apply_months)
             THEN "Application window is OPEN - Apply now!"
             ELSE IF current_month \in Range(internship_months)
             THEN "Internship period - Focus on current internship or prepare for next cycle"
             ELSE window_status(
                      _calculate_months_until_window(current_month,
                                                     apply_months))

\* the method body; self is the contents of SEMESTER_MAPPING at the time of
\* the call.  calendar_info is self[semester].copy() with the three keys
\* set on the copy.
get_calendar_for_semester_self(self, semester, current_month_arg, now) ==
    IF InvalidSemester(semester) THEN SemesterError(semester)
    ELSE
    LET current_month == IF current_month_arg.is_none THEN now.month
                         ELSE current_month_arg.value
    IN  IF InvalidMonth(current_month)
        THEN ValueError("Month must be between 1 and 12, got "
                        \o ToString(current_month))
        ELSE [semester           |-> semester,
              current_status     |->
                  current_status(semester, self[semester], current_month),
              upcoming_deadlines |->
                  get_upcoming_deadlines_self(self, semester,
                                              Some(current_month), now)]
             @@ self[semester]

\* the method on the class table as the module defines it
get_calendar_for_semester(semester, current_month_arg, now) ==
    get_calendar_for_semester_self(SEMESTER_MAPPING, semester,
                                   current_month_arg, now)

----------------------------------------------------------------------------
\* CalendarService.calculate_preparation_window

\* datetime arithmetic: the proleptic Gregorian day number of a date
IsLeap(year) == (year % 4 = 0 /\ year % 100 # 0) \/ year % 400 = 0

DaysInMonth(year, month) ==
    IF month = 2 THEN (IF IsLeap(year) THEN 29 ELSE 28)
    ELSE IF month \in {4, 6, 9, 11} THEN 30 ELSE 31

RECURSIVE DaysBeforeMonth(_, _)
DaysBeforeMonth(year, month) ==
    IF month = 1 THEN 0
    ELSE DaysInMonth(year, month - 1) + DaysBeforeMonth(year, month - 1)

DaysBeforeYear(year) ==
    (year - 1) * 365 + ((year - 1) \div 4) - ((year - 1) \div 100)
    + ((year - 1) \div 400)

Ordinal(year, month, day) ==
    DaysBeforeYear(year) + DaysBeforeMonth(year, month) + day

\* (datetime(year, month, 1) - now).days: timedelta.days rounds down, so a
\* clock reading after midnight takes one more day off
DaysUntil(year, month, now) ==
    Ordinal(year, month, 1) - Ordinal(now.year, now.month, now.day)
    - (IF now.midnight THEN 0 ELSE 1)

SkillBuildingActions == <<
    "Build strong foundation in core subjects",
    "Learn programming languages and tools",
    "Work on small projects to practice",
    "Maintain good academic performance">>

InterviewReadinessActions == <<
    "Polish your resume immediately",
    "Prepare for technical interviews",
    "Research target companies",
    "Practice coding problems daily",
    "Update LinkedIn profile">>

PortfolioActions == <<
    "Complete relevant online courses/certifications",
    "Build 2-3 strong projects for your portfolio",
    "Start practicing coding problems",
    "Update resume with recent projects",
    "Network with professionals in your field">>

LongHorizonActions == <<
    "Learn new technologies relevant to your field",
    "Build comprehensive projects",
    "Contribute to open source",
    "Develop strong problem-solving skills",
    "Build a professional online presence">>

\* a slip: a target in the current month is taken for next year's
months_to_prepare_strict(target_month, current_month) ==
    IF target_month > current_month
    THEN target_month - current_month
    ELSE (12 - current_month) + target_month

months_to_prepare(target_month, current_month) ==
    IF target_month >= current_month
    THEN target_month - current_month
    ELSE (12 - current_month) + target_month

\* the year of target_date
target_year(target_month, now) ==
    IF target_month >= now.month THEN now.year ELSE now.year + 1

preparation_status(months) ==
    IF months = 0
    THEN "Application window is NOW - Apply immediately!"
    ELSE IF months = 1
    THEN "Application window opens next month - Final preparations!"
    ELSE IF months <= 2
    THEN "Application window opens in " \o ToString(months)
         \o " months - Intensive preparation phase"
    ELSE "You have " \o ToString(months)
         \o " months to prepare - Good time to build skills"

recommended_actions(months) ==
    IF months <= 1 THEN InterviewReadinessActions
    ELSE IF months <= 3 THEN PortfolioActions
    ELSE LongHorizonActions

calculate_preparation_window(semester, target_month_arg, now) ==
    IF InvalidSemester(semester) THEN SemesterError(semester)
    ELSE IF semester \in {1, 2}
    THEN [semester            |-> semester,
          current_month       |-> now.month,
          target_month        |-> None,
          months_to_prepare   |-> None,
          weeks_to_prepare    |-> None,
          preparation_status  |->
              "Focus on skill building - no immediate internship applications",
          recommended_actions |-> SkillBuildingActions]
    ELSE
    LET apply_months == GetList(SEMESTER_MAPPING[semester], "apply_months")
        target_month ==
            IF target_month_arg.is_none
            THEN (IF apply_months # <<>> THEN ListMin(apply_months)
                  ELSE now.month)
            ELSE target_month_arg.value
        months == months_to_prepare(target_month, now.month)
    IN  IF ~(1 <= target_month /\ target_month <= 12)
        THEN ValueError("month must be in 1..12")
        ELSE [semester            |-> semester,
              current_month       |-> now.month,
              target_month        |-> target_month,
              months_to_prepare   |-> months,
              weeks_to_prepare    |->
                  DaysUntil(target_year(target_month, now), target_month,
                            now) \div 7,
              preparation_status  |-> preparation_status(months),
              recommended_actions |-> recommended_actions(months)]

----------------------------------------------------------------------------
\* Calls of the calendar operations: the semester and month arguments range
\* over the valid values and a margin of invalid ones on each side; the
\* clock is what datetime.now() reads during the call.

MaxSemesterArg == 9

MaxMonthArg == 13

SemesterArgs == (-1)..MaxSemesterArg

MonthArgs == {Some(m) : m \in 0..MaxMonthArg} \cup {None}

ClockYears == {2023, 2024}

\* full clock readings: first, second, middle and last day of each month,
\* at midnight and later in the day
Clocks ==
    {c \in [year : ClockYears, month : 1..12, day : {1, 2, 15, 28, 29, 30, 31},
            midnight : BOOLEAN] :
        c.day \in {1, 2, 15, DaysInMonth(c.year, c.month)}}

\* one clock reading per month, for the operations that read only the month
MonthClocks ==
    {c \in Clocks : c.year = 2024 /\ c.day = 15 /\ ~c.midnight}

CalendarInputs ==
    [op : {"get_calendar_for_semester", "get_upcoming_deadlines"},
     semester : SemesterArgs, month : MonthArgs, now : MonthClocks]
    \cup
    [op : {"calculate_preparation_window"},
     semester : SemesterArgs, month : MonthArgs, now : Clocks]

InitCalendar ==
    /\ pc = "call"
    /\ args \in CalendarInputs
    /\ result = NoResult
    /\ SharedInit

CallGetCalendar ==
    /\ pc = "call"
    /\ args.op = "get_calendar_for_semester"
    /\ result' = get_calendar_for_semester(args.semester, args.month, args.now)
    /\ pc' = "return"
    /\ UNCHANGED <<args, semester_mapping, store>>

CallUpcomingDeadlines ==
    /\ pc = "call"
    /\ args.op = "get_upcoming_deadlines"
    /\ result' = get_upcoming_deadlines(args.semester, args.month, args.now)
    /\ pc' = "return"
    /\ UNCHANGED <<args, semester_mapping, store>>

CallPreparationWindow ==
    /\ pc = "call"
    /\ args.op = "calculate_preparation_window"
    /\ result' = calculate_preparation_window(args.semester, args.month,
                                              args.now)
    /\ pc' = "return"
    /\ UNCHANGED <<args, semester_mapping, store>>

NextCalendar ==
    \/ CallGetCalendar
    \/ CallUpcomingDeadlines
    \/ CallPreparationWindow

SpecCalendar == InitCalendar /\ [][NextCalendar]_vars

----------------------------------------------------------------------------
\* Calls of check_domain_authenticity and detect_red_flags on their own,
\* with further company names, domains, titles, stipends and
\* responsibilities

\* "TechCorp"
C_TechCorpPlain ==
    <<"T","e","c","h","C","o","r","p">>

\* "TechCorp Ltd"
C_TechCorpLtd ==
    <<"T","e","c","h","C","o","r","p"," ","L","t","d">>

\* "Acme Inc."
C_AcmeInc ==
    <<"A","c","m","e"," ","I","n","c",".">>

\* "  "
D_blank ==
    <<" "," ">>

\* " Gmail.COM "
D_gmail_padded ==
    <<" ","G","m","a","i","l",".","C","O","M"," ">>

\* "Gmail.com"
D_Gmail_upper ==
    <<"G","m","a","i","l",".","c","o","m">>

\* "techcorpjobs.com"
D_techcorpjobs ==
    <<"t","e","c","h","c","o","r","p","j","o","b","s",".","c","o","m">>

\* "pvt.com"
D_pvt ==
    <<"p","v","t",".","c","o","m">>

\* "jobs.acme.co.in"
D_acme ==
    <<"j","o","b","s",".","a","c","m","e",".","c","o",".","i","n">>

\* "yahoo.com"
D_yahoo ==
    <<"y","a","h","o","o",".","c","o","m">>

\* "Intern - Pay To Apply"
T_PayToApply ==
    <<"I","n","t","e","r","n"," ","-"," ","P","a","y"," ","T","o"," ",
      "A","p","p","l","y">>

\* "50001"
St_50001 ==
    <<"5","0","0","0","1">>

\* "50k"
St_50k ==
    <<"5","0","k">>

\* "51 k"
St_51_k ==
    <<"5","1"," ","k">>

\* "6000 per week"
St_6000_week ==
    <<"6","0","0","0"," ","p","e","r"," ","w","e","e","k">>

\* "10000 after joining fee"
St_JoiningFee ==
    <<"1","0","0","0","0"," ","a","f","t","e","r"," ","j","o","i","n",
      "i","n","g"," ","f","e","e">>

\* "Review pull requests"
Rs_Clear3 ==
    <<"R","e","v","i","e","w"," ","p","u","l","l"," ","r","e","q","u",
      "e","s","t","s">>

DomainCompanies ==
    {C_TechCorpPlain, C_TechCorpLtd, C_TechCorp, C_Acme, C_AcmeInc}

DomainSamples ==
    {None, Some(<<>>), Some(D_blank), Some(D_gmail), Some(D_gmail_padded),
     Some(D_yahoo), Some(D_techcorp), Some(D_techcorpjobs), Some(D_pvt),
     Some(D_acme), Some(D_example)}

FlagListings ==
    [id               : {"i1"},
     title            : {T_Intern, T_PayToApply},
     company          : {C_Acme, C_TechCorp},
     company_domain   : {None, Some(<<>>), Some(D_gmail), Some(D_Gmail_upper),
                         Some(D_gmail_padded), Some(D_techcorp)},
     platform         : {None},
     stipend          : {St_Unpaid, St_60k, St_20000, St_50000, St_50001,
                         St_50k, St_51_k, St_6000_week, St_JoiningFee},
     responsibilities : {<<>>, <<Rs_Short>>, <<Rs_Vague1>>, <<Rs_Scam>>,
                         <<Rs_Vague1, Rs_Vague2>>, <<Rs_Clear1, Rs_Vague2>>,
                         <<Rs_Clear1, Rs_Clear2>>, <<Rs_Scam, Rs_Vague1>>,
                         <<Rs_Clear1, Rs_Clear2, Rs_Clear3>>}]

ChecksInputs ==
    [op : {"check_domain_authenticity"},
     company : DomainCompanies, domain : DomainSamples]
    \cup [op : {"detect_red_flags"}, internship : FlagListings]

InitChecks ==
    /\ pc = "call"
    /\ args \in ChecksInputs
    /\ result = NoResult
    /\ SharedInit

CallDomainAuthenticity ==
    /\ pc = "call"
    /\ args.op = "check_domain_authenticity"
    /\ result' = check_domain_authenticity(args.company, args.domain)
    /\ pc' = "return"
    /\ UNCHANGED <<args, semester_mapping, store>>

CallDetectRedFlags ==
    /\ pc = "call"
    /\ args.op = "detect_red_flags"
    /\ result' = detect_red_flags(args.internship)
    /\ pc' = "return"
    /\ UNCHANGED <<args, semester_mapping, store>>

NextChecks == CallDomainAuthenticity \/ CallDetectRedFlags

SpecChecks == InitChecks /\ [][NextChecks]_vars

----------------------------------------------------------------------------
\* calculate_skill_match called for a user and again for the same user with
\* more skills

MonotoneSkills == <<S_Python, S_python_padded, S_SQL, S_React>>

\* the elements of a list at the indices of I, in list order
SubList(list, I) ==
    LET Taken[k \in 0..Len(list)] ==
            IF k = 0 THEN <<>>
            ELSE IF k \in I THEN Append(Taken[k - 1], list[k])
            ELSE Taken[k - 1]
    IN  Taken[Len(list)]

SubLists(list) == {SubList(list, I) : I \in SUBSET DOMAIN list}

MonotoneInputs ==
    [user_skills      : SubLists(MonotoneSkills),
     more_skills      : {<<>>} \cup {<<MonotoneSkills[i]>> :
                                        i \in DOMAIN MonotoneSkills},
     required_skills  : SubLists(MonotoneSkills),
     preferred_skills : {Some(q) : q \in SubLists(Tail(MonotoneSkills))}
                        \cup {None}]

InitMonotone ==
    /\ pc = "call"
    /\ args \in MonotoneInputs
    /\ result = NoResult
    /\ SharedInit

CallForUser ==
    /\ pc = "call"
    /\ result' = [for_user |->
                      calculate_skill_match(args.user_skills,
                                            args.required_skills,
                                            args.preferred_skills)]
    /\ pc' = "call_again"
    /\ UNCHANGED <<args, semester_mapping, store>>

CallForMoreSkills ==
    /\ pc = "call_again"
    /\ result' = [for_user |-> result.for_user,
                  for_more |->
                      calculate_skill_match(
                          args.user_skills \o args.more_skills,
                          args.required_skills, args.preferred_skills)]
    /\ pc' = "return"
    /\ UNCHANGED <<args, semester_mapping, store>>

NextMonotone == CallForUser \/ CallForMoreSkills

SpecMonotone == InitMonotone /\ [][NextMonotone]_vars

----------------------------------------------------------------------------
\* Result caching in the router (routers/internship.py): a request computes
\* its result, selects the rows cached under its key, and then updates them
\* when the select found any or inserts a row when it found none.  Requests
\* run against the same database; each statement is one step.

MaxRequests == 2

Requests == 1..MaxRequests

\* rows of internship_listings the requests read
InternshipRows ==
    [i1 |-> [id |-> "i1", title |-> T_Intern, company |-> C_TechCorp,
             company_domain |-> Some(D_techcorp),
             platform |-> Some(P_LinkedIn), stipend |-> St_20000,
             responsibilities |-> <<Rs_Clear1, Rs_Clear2>>,
             required_skills |-> <<S_Python, S_SQL>>,
             preferred_skills |-> <<S_React>>],
     i2 |-> [id |-> "i2", title |-> T_Intern, company |-> C_Acme,
             company_domain |-> Some(D_gmail),
             platform |-> Some(P_Telegram), stipend |-> St_60k,
             responsibilities |-> <<Rs_Scam>>,
             required_skills |-> <<S_SQL>>,
             preferred_skills |-> <<>>]]

\* a request: the endpoint, the key it works on and, for a skill match,
\* the skills of the profile it read
CacheInputs ==
    [kind : {"skill_match"}, user_id : {"u1"},
     internship_id : DOMAIN InternshipRows,
     user_skills : {<<S_Python>>, <<S_Python, S_SQL>>}]
    \cup [kind : {"verify"}, internship_id : DOMAIN InternshipRows]

\* the table a request caches in
CacheTable(request) ==
    IF request.kind = "skill_match" THEN "skill_matches"
    ELSE "verification_results"

\* .eq('user_id', ...).eq('internship_id', ...) / .eq('internship_id', ...)
KeyMatches(row, request) ==
    /\ row.internship_id = request.internship_id
    /\ request.kind = "skill_match" => row.user_id = request.user_id

\* the router's match_dict for a computed match and its learning path
match_dict_of(request, match_result, learning_path) ==
    [user_id          |-> request.user_id,
     internship_id    |-> request.internship_id,
     match_percentage |-> match_result.match_percentage,
     matching_skills  |-> match_result.matching_skills,
     missing_skills   |-> match_result.missing_skills,
     learning_path    |-> learning_path]

\* create_skill_match: the match, then the learning path for its missing
\* skills, each computed once
match_dict(request) ==
    LET internship_data == InternshipRows[request.internship_id]
    IN  CHOOSE row \in
            {CHOOSE d \in
                 {match_dict_of(request, match_result, learning_path) :
                      learning_path \in
                          {generate_learning_path(
                               match_result.missing_skills,
                               Some(internship_data.required_skills))}} : TRUE :
                 match_result \in
                     {calculate_skill_match(
                          request.user_skills,
                          internship_data.required_skills,
                          Some(internship_data.preferred_skills))}} : TRUE

\* verify_internship and the router's verification_dict; now is the reading
\* of datetime.now() that becomes last_verified
verification_dict(request, now) ==
    CHOOSE row \in
        {[internship_id        |-> request.internship_id,
          status               |-> verification_result.status,
          trust_score          |-> verification_result.trust_score,
          verification_signals |-> verification_result.verification_signals,
          red_flags            |-> verification_result.red_flags,
          verification_notes   |-> verification_result.verification_notes,
          last_verified        |-> now] :
             verification_result \in
                 {verify_internship(InternshipRows[request.internship_id])}} :
            TRUE

\* table(...).select('*').eq(...).execute().data
select_rows(rows, request) ==
    SelectSeq(rows, LAMBDA row : KeyMatches(row, request))

\* table(...).update(values).eq(...).execute(): every matching row takes
\* the values
update_rows(rows, values, request) ==
    [i \in 1..Len(rows) |->
        IF KeyMatches(rows[i], request) THEN values ELSE rows[i]]

\* on a table with a unique key the insert of a second row for the key
\* raises; the router logs the exception and goes on
insert_raises(rows, request, unique_keys) ==
    unique_keys /\ select_rows(rows, request) # <<>>

\* table(...).insert(values).execute(): a new row
insert_row(rows, values, request, unique_keys) ==
    IF insert_raises(rows, request, unique_keys) THEN rows
    ELSE Append(rows, values)

\* if existing.data: update ... else: insert ...
write_rows(rows, existing, values, request, unique_keys) ==
    IF existing # <<>> THEN update_rows(rows, values, request)
    ELSE insert_row(rows, values, request, unique_keys)

InitCache ==
    /\ pc = [r \in Requests |-> "compute"]
    /\ args \in [Requests -> CacheInputs]
    /\ result = [r \in Requests |-> NoResult]
    /\ semester_mapping = SEMESTER_MAPPING
    /\ store \in {[EmptyStore EXCEPT !.unique_keys = u] : u \in BOOLEAN}

\* the engine call; computed_at numbers the computations in the order made
\* and is the clock reading of a verification
ComputeResult(r) ==
    /\ pc[r] = "compute"
    /\ LET computed_at == 1 + Cardinality({q \in Requests : pc[q] # "compute"})
       IN  result' = [result EXCEPT ![r] =
               [computed_at |-> computed_at,
                values |-> IF args[r].kind = "skill_match"
                           THEN match_dict(args[r])
                           ELSE verification_dict(args[r], computed_at)]]
    /\ pc' = [pc EXCEPT ![r] = "select"]
    /\ UNCHANGED <<args, semester_mapping, store>>

\* "Check if match already exists"
SelectExisting(r) ==
    /\ pc[r] = "select"
    /\ result' = [result EXCEPT ![r] =
           [computed_at |-> result[r].computed_at,
            values      |-> result[r].values,
            existing    |-> select_rows(store[CacheTable(args[r])], args[r])]]
    /\ pc' = [pc EXCEPT ![r] = "write"]
    /\ UNCHANGED <<args, semester_mapping, store>>

\* the update or the insert; after it the verify endpoint also writes the
\* status, the score and the flags to the listing's row, unless the insert
\* raised
WriteResult(r) ==
    /\ pc[r] = "write"
    /\ store' = [store EXCEPT
           ![CacheTable(args[r])] =
               write_rows(@, result[r].existing, result[r].values, args[r],
                          store.unique_keys),
           !.internship_listings[args[r].internship_id] =
               IF /\ args[r].kind = "verify"
                  /\ ~(/\ result[r].existing = <<>>
                       /\ insert_raises(store.verification_results, args[r],
                                        store.unique_keys))
               THEN Some([verification_status |-> result[r].values.status,
                          trust_score |-> result[r].values.trust_score,
                          red_flags   |-> result[r].values.red_flags])
               ELSE @]
    /\ pc' = [pc EXCEPT ![r] = "done"]
    /\ UNCHANGED <<args, result, semester_mapping>>

NextCache ==
    \E r \in Requests : ComputeResult(r) \/ SelectExisting(r) \/ WriteResult(r)

SpecCache == InitCache /\ [][NextCache]_vars

----------------------------------------------------------------------------
\* A caller that changes a value it was given and then makes the same call
\* again.  Python lists are objects: a list the engine put into its result
\* without copying is the same object as the list it was taken from, and an
\* append through the result is an append to that list.

\* the keys of a returned calendar whose list is the list object held in
\* SEMESTER_MAPPING[semester]: dict.copy() copies the dict and not the
\* lists in it; upcoming_deadlines is made by the call
calendar_shared_keys(self, semester) ==
    DOMAIN self[semester]
        \cap {"apply_months", "internship_months", "internships"}

\* the keys of a returned skill match whose list is the caller's
\* required_skills: the return for an empty user_skills puts the argument
\* itself under missing_skills
skill_match_shared_keys(user_skills, required_skills) ==
    IF required_skills # <<>> /\ user_skills = <<>>
    THEN {"missing_skills"}
    ELSE {}

OwnershipInputs ==
    [op : {"get_calendar_for_semester"}, semester : 1..8, now : MonthClocks]
    \cup
    [op : {"calculate_skill_match"},
     user_skills : {<<>>, <<S_Python>>},
     required_skills : {<<>>, <<S_Python>>, <<S_Python, S_SQL>>},
     preferred_skills : {None, Some(<<S_React>>)}]

\* the engine call on the arguments and the class table as they are now
EngineResult(a, self) ==
    IF a.op = "get_calendar_for_semester"
    THEN get_calendar_for_semester_self(self, a.semester, None, a.now)
    ELSE calculate_skill_match(a.user_skills, a.required_skills,
                               a.preferred_skills)

\* the keys of a result that hold lists, and what a caller appends to each
ListKeys(a, returned) ==
    DOMAIN returned
        \cap {"apply_months", "internship_months", "internships",
              "upcoming_deadlines", "matching_skills", "missing_skills"}

Appended(a, key) ==
    IF key \in {"apply_months", "internship_months"} THEN {4, 12}
    ELSE IF key = "upcoming_deadlines"
    THEN {Deadline("Reminder", 12, <<>>, SEMESTER_MAPPING[a.semester])}
    ELSE {S_React}

InitOwnership ==
    /\ pc = "call"
    /\ args \in OwnershipInputs
    /\ result = NoResult
    /\ SharedInit

\* the first call; inputs and returned keep what the arguments and the
\* result were at the return, held is the result object in the caller's
\* hands
CallEngine ==
    /\ pc = "call"
    /\ result' = [inputs   |-> args,
                  returned |-> EngineResult(args, semester_mapping),
                  held     |-> EngineResult(args, semester_mapping)]
    /\ pc' = "held"
    /\ UNCHANGED <<args, semester_mapping, store>>

\* held[key].append(value) by the caller
CallerAppends ==
    /\ pc = "held"
    /\ \E key \in ListKeys(args, result.held) :
       \E value \in Appended(args, key) :
          /\ result' = [result EXCEPT !.held[key] = Append(@, value)]
          /\ semester_mapping' =
                IF /\ args.op = "get_calendar_for_semester"
                   /\ key \in calendar_shared_keys(semester_mapping,
                                                   args.semester)
                THEN [semester_mapping EXCEPT
                          ![args.semester][key] = Append(@, value)]
                ELSE semester_mapping
          /\ args' =
                IF /\ args.op = "calculate_skill_match"
                   /\ key \in skill_match_shared_keys(args.user_skills,
                                                      args.required_skills)
                THEN [args EXCEPT !.required_skills = Append(@, value)]
                ELSE args
    /\ pc' = "call_later"
    /\ UNCHANGED store

\* the same call made again with the same argument objects
CallEngineLater ==
    /\ pc = "call_later"
    /\ result' = [inputs   |-> result.inputs,
                  returned |-> result.returned,
                  held     |-> result.held,
                  later    |-> EngineResult(args, semester_mapping)]
    /\ pc' = "return"
    /\ UNCHANGED <<args, semester_mapping, store>>

NextOwnership == CallEngine \/ CallerAppends \/ CallEngineLater

SpecOwnership == InitOwnership /\ [][NextOwnership]_vars

----------------------------------------------------------------------------
\* Engine calls running at the same time.  Each task is one call; a step is
\* one statement (or one run of statements that touch only the locals of
\* the call), and the steps of the tasks interleave freely.  result[t]
\* holds the locals of task t until the return, then the returned value.

MaxTasks == 2

Tasks == 1..MaxTasks

ConcurrentInputs ==
    [op : {"get_calendar_for_semester"}, semester : {3, 5},
     current_month : {2, 11}, now : {c \in MonthClocks : c.month = 6}]
    \cup [op : {"rank_internships"},
          user_profile : {[skills |-> <<S_Python>>]},
          internships : {<<L_Backend, L_FullStack>>, <<>>}]
    \cup [op : {"verify_internship"},
          internship : {InternshipRows.i1, InternshipRows.i2}]
    \cup [op : {"calculate_skill_match"}, user_skills : {<<S_Python>>},
          required_skills : {<<S_Python, S_SQL>>},
          preferred_skills : {Some(<<S_React>>)}]
    \cup [op : {"generate_learning_path"}, missing_skills : {<<S_SQL, S_Git>>},
          required_skills : {Some(<<S_SQL>>)}]

\* a slip: calendar_info is the table's dict itself, not a copy of it
dict_copy_same_object(entry) == [is_table_entry |-> TRUE, value |-> entry]

\* self.SEMESTER_MAPPING[semester].copy(): a new dict with the entry's items
dict_copy(entry) == [is_table_entry |-> FALSE, value |-> entry]

\* the items of the dict the local calendar_info refers to
calendar_info_of(t) ==
    IF result[t].calendar_info.is_table_entry
    THEN semester_mapping[args[t].semester]
    ELSE result[t].calendar_info.value

\* d[key] = value
SetKey(d, key, value) == (key :> value) @@ d

\* the state after calendar_info[key] = value in task t with program
\* counter next
SetCalendarInfo(t, key, value, next) ==
    /\ result' = [result EXCEPT ![t] =
           IF result[t].calendar_info.is_table_entry THEN @
           ELSE [calendar_info |->
                    [is_table_entry |-> FALSE,
                     value |-> SetKey(calendar_info_of(t), key, value)]]]
    /\ semester_mapping' =
           IF result[t].calendar_info.is_table_entry
           THEN [semester_mapping EXCEPT ![args[t].semester] =
                    SetKey(@, key, value)]
           ELSE semester_mapping
    /\ pc' = [pc EXCEPT ![t] = next]

InitConcurrent ==
    /\ pc = [t \in Tasks |-> "call"]
    /\ args \in [Tasks -> ConcurrentInputs]
    /\ result = [t \in Tasks |-> NoResult]
    /\ SharedInit

\* get_calendar_for_semester: the argument checks, the copy of the table
\* entry and calendar_info['semester'] = semester
CalendarCopy(t) ==
    /\ pc[t] = "call"
    /\ args[t].op = "get_calendar_for_semester"
    /\ IF InvalidSemester(args[t].semester)
       THEN /\ result' = [result EXCEPT ![t] =
                   [returned |-> SemesterError(args[t].semester)]]
            /\ pc' = [pc EXCEPT ![t] = "return"]
            /\ UNCHANGED semester_mapping
       ELSE IF InvalidMonth(args[t].current_month)
       THEN /\ result' = [result EXCEPT ![t] =
                   [returned |->
                       ValueError("Month must be between 1 and 12, got "
                                  \o ToString(args[t].current_month))]]
            /\ pc' = [pc EXCEPT ![t] = "return"]
            /\ UNCHANGED semester_mapping
       ELSE LET calendar_info == dict_copy(semester_mapping[args[t].semester])
            IN  /\ result' = [result EXCEPT ![t] =
                       [calendar_info |->
                           IF calendar_info.is_table_entry THEN calendar_info
                           ELSE [is_table_entry |-> FALSE,
                                 value |-> SetKey(calendar_info.value,
                                                  "semester",
                                                  args[t].semester)]]]
                /\ semester_mapping' =
                       IF calendar_info.is_table_entry
                       THEN [semester_mapping EXCEPT ![args[t].semester] =
                                SetKey(@, "semester", args[t].semester)]
                       ELSE semester_mapping
                /\ pc' = [pc EXCEPT ![t] = "copied"]
    /\ UNCHANGED <<args, store>>

\* calendar_info['current_status'] = ...
CalendarStatus(t) ==
    /\ pc[t] = "copied"
    /\ SetCalendarInfo(t, "current_status",
                       current_status(args[t].semester, calendar_info_of(t),
                                      args[t].current_month),
                       "status_set")
    /\ UNCHANGED <<args, store>>

\* calendar_info['upcoming_deadlines'] = self.get_upcoming_deadlines(...)
CalendarDeadlines(t) ==
    /\ pc[t] = "status_set"
    /\ SetCalendarInfo(t, "upcoming_deadlines",
                       get_upcoming_deadlines_self(
                           semester_mapping, args[t].semester,
                           Some(args[t].current_month), args[t].now),
                       "deadlines_set")
    /\ UNCHANGED <<args, store>>

\* return calendar_info
CalendarReturn(t) ==
    /\ pc[t] = "deadlines_set"
    /\ result' = [result EXCEPT ![t] = [returned |-> calendar_info_of(t)]]
    /\ pc' = [pc EXCEPT ![t] = "return"]
    /\ UNCHANGED <<args, semester_mapping, store>>

\* rank_internships: one turn of the loop over the listings
RankAppend(t) ==
    /\ pc[t] \in {"call", "loop"}
    /\ args[t].op = "rank_internships"
    /\ LET ranked_internships ==
               IF pc[t] = "call" THEN <<>> ELSE result[t].ranked_internships
       IN  /\ Len(ranked_internships) < Len(args[t].internships)
           /\ result' = [result EXCEPT ![t] =
                  [ranked_internships |->
                      Append(ranked_internships,
                             ranked_entry(args[t].user_profile,
                                          args[t].internships[
                                              Len(ranked_internships) + 1]))]]
    /\ pc' = [pc EXCEPT ![t] = "loop"]
    /\ UNCHANGED <<args, semester_mapping, store>>

\* rank_internships: the return for no listings, or the sort and the return
RankSort(t) ==
    /\ pc[t] \in {"call", "loop"}
    /\ args[t].op = "rank_internships"
    /\ LET ranked_internships ==
               IF pc[t] = "call" THEN <<>> ELSE result[t].ranked_internships
       IN  /\ Len(ranked_internships) = Len(args[t].internships)
           /\ result' = [result EXCEPT ![t] =
                  [returned |->
                      ListSort(ranked_internships,
                               [i \in 1..Len(ranked_internships) |->
                                   ranked_internships[i].match_percentage],
                               TRUE)]]
    /\ pc' = [pc EXCEPT ![t] = "return"]
    /\ UNCHANGED <<args, semester_mapping, store>>

\* verify_internship: the three signals
VerifySignals(t) ==
    /\ pc[t] = "call"
    /\ args[t].op = "verify_internship"
    /\ result' = [result EXCEPT ![t] =
           [signals |->
               [official_domain  |-> check_domain_authenticity(
                                         args[t].internship.company,
                                         args[t].internship.company_domain),
                known_platform   |-> check_platform_legitimacy(
                                         args[t].internship.platform),
                company_verified |-> FALSE]]]
    /\ pc' = [pc EXCEPT ![t] = "signals_checked"]
    /\ UNCHANGED <<args, semester_mapping, store>>

\* verify_internship: red_flags = self.detect_red_flags(internship_data)
VerifyRedFlags(t) ==
    /\ pc[t] = "signals_checked"
    /\ result' = [result EXCEPT ![t] =
           [signals   |-> result[t].signals,
            red_flags |-> detect_red_flags(args[t].internship)]]
    /\ pc' = [pc EXCEPT ![t] = "flags_detected"]
    /\ UNCHANGED <<args, semester_mapping, store>>

\* verify_internship: the score, the status, the notes and the return
VerifyScore(t) ==
    /\ pc[t] = "flags_detected"
    /\ LET signals     == result[t].signals
           red_flags   == result[t].red_flags
           trust_score == calculate_trust_score(signals, red_flags)
       IN  result' = [result EXCEPT ![t] =
               [returned |->
                   [internship_id        |-> args[t].internship.id,
                    status               |-> classify_status(trust_score),
                    trust_score          |-> trust_score,
                    verification_signals |-> signals,
                    red_flags            |-> red_flags,
                    verification_notes   |->
                        _generate_verification_notes(signals, red_flags,
                                                     trust_score)]]]
    /\ pc' = [pc EXCEPT ![t] = "return"]
    /\ UNCHANGED <<args, semester_mapping, store>>

\* calculate_skill_match and generate_learning_path work on their
\* arguments and on locals only
CallMatching(t) ==
    /\ pc[t] = "call"
    /\ args[t].op \in {"calculate_skill_match", "generate_learning_path"}
    /\ result' = [result EXCEPT ![t] =
           [returned |->
               IF args[t].op = "calculate_skill_match"
               THEN calculate_skill_match(args[t].user_skills,
                                          args[t].required_skills,
                                          args[t].preferred_skills)
               ELSE generate_learning_path(args[t].missing_skills,
                                           args[t].required_skills)]]
    /\ pc' = [pc EXCEPT ![t] = "return"]
    /\ UNCHANGED <<args, semester_mapping, store>>

NextConcurrent ==
    \E t \in Tasks :
        \/ CalendarCopy(t)
        \/ CalendarStatus(t)
        \/ CalendarDeadlines(t)
        \/ CalendarReturn(t)
        \/ RankAppend(t)
        \/ RankSort(t)
        \/ VerifySignals(t)
        \/ VerifyRedFlags(t)
        \/ VerifyScore(t)
        \/ CallMatching(t)

SpecConcurrent == InitConcurrent /\ [][NextConcurrent]_vars

----------------------------------------------------------------------------
\* Properties of calculate_skill_match

\* how the properties read a skill list: lowercased, trimmed, as a set
Norm(skills) == {StrStrip(StrLower(skills[i])) : i \in 1..Len(skills)}

Returned == pc = "return"

\* floor(70*|mr|/|r| + 30*|mp|/|p|) with preferred skills, else
\* floor(100*|mr|/|r|), in exact integer arithmetic
ExactPercentage(user, required, preferred) ==
    LET u  == Norm(user)
        r  == Norm(required)
        p  == Norm(OrEmpty(preferred))
        mr == Cardinality(u \cap r)
        mp == Cardinality(u \cap p)
    IN  IF p # {}
        THEN (70 * mr * Cardinality(p) + 30 * mp * Cardinality(r))
                 \div (Cardinality(r) * Cardinality(p))
        ELSE (100 * mr) \div Cardinality(r)

\* C3: for non-empty user_skills and required_skills the returned
\* match_percentage is an integer in [0,100] equal to
\* floor(70*|matched_required|/|required| + 30*|matched_preferred|/|preferred|)
\* when preferred skills are supplied and non-empty, and to
\* floor(100*|matched_required|/|required|) otherwise.
C3_PercentageIsExactFloor ==
    (Returned /\ args.user_skills # <<>> /\ args.required_skills # <<>>) =>
        /\ result.match_percentage \in 0..100
        /\ result.match_percentage =
               ExactPercentage(args.user_skills, args.required_skills,
                               args.preferred_skills)

\* C4: with no preferred skills and non-empty required_skills, the
\* normalized matching_skills and missing_skills partition the normalized
\* required set: matching = user /\ required, missing = required \ user.
C4_PartitionWithoutPreferred ==
    (Returned /\ args.preferred_skills.is_none
              /\ args.required_skills # <<>>) =>
        LET u == Norm(args.user_skills)
            r == Norm(args.required_skills)
            matching == Norm(result.matching_skills)
            missing  == Norm(result.missing_skills)
        IN  /\ matching = u \cap r
            /\ missing = r \ u
            /\ matching \cup missing = r
            /\ matching \cap missing = {}

\* C4 witness: a call without preferred skills returned with both a
\* matching and a missing skill, the match found through normalization
C4_Witness ==
    /\ Returned
    /\ args.preferred_skills.is_none
    /\ args.user_skills = <<S_python_padded>>
    /\ args.required_skills = <<S_Python, S_SQL>>
    /\ result.matching_skills = <<S_Python>>
    /\ result.missing_skills = <<S_SQL>>

\* C5 as stated: every returned SkillMatch has matching \cup missing equal
\* to the normalized required skills, and matching, missing disjoint.
C5_UnionIsRequired ==
    Returned =>
        LET r == Norm(args.required_skills)
            matching == Norm(result.matching_skills)
            missing  == Norm(result.missing_skills)
        IN  /\ matching \cup missing = r
            /\ matching \cap missing = {}

\* C5 amended: missing = required \ user and matching, missing are
\* disjoint; matching \cup missing is the required set together with the
\* preferred skills the user holds (when user_skills and required_skills
\* are both non-empty).
C5_UnionIsRequiredPlusHeldPreferred ==
    Returned =>
        LET u == Norm(args.user_skills)
            r == Norm(args.required_skills)
            p == Norm(OrEmpty(args.preferred_skills))
            matching == Norm(result.matching_skills)
            missing  == Norm(result.missing_skills)
            extra == IF args.user_skills # <<>> /\ args.required_skills # <<>>
                     THEN u \cap p ELSE {}
        IN  /\ missing = r \ u
            /\ matching \cap missing = {}
            /\ matching \cup missing = r \cup extra

\* C5 witness: the user holds a preferred skill that is not required
C5_Witness ==
    /\ Returned
    /\ args.user_skills = <<S_Python, S_React>>
    /\ args.required_skills = <<S_Python, S_SQL>>
    /\ args.preferred_skills = Some(<<S_React>>)
    /\ result.matching_skills = <<S_Python, S_React>>
    /\ result.missing_skills = <<S_SQL>>

----------------------------------------------------------------------------
\* Properties of generate_learning_path

\* how many times x occurs in a sequence
Count(s, x) == Cardinality({i \in 1..Len(s) : s[i] = x})

Skills(path) == [i \in 1..Len(path) |-> path[i].skill]

\* the difficulty the fixed table gives a skill name, Medium when absent
TableDifficulty(skill) ==
    LET n == StrStrip(StrLower(skill))
    IN  IF \E i \in 1..Len(SKILL_DIFFICULTY) : SKILL_DIFFICULTY[i].k = n
        THEN StrCapitalize(
                 SKILL_DIFFICULTY[CHOOSE i \in 1..Len(SKILL_DIFFICULTY) :
                                      SKILL_DIFFICULTY[i].k = n].v)
        ELSE <<"M","e","d","i","u","m">>

D_Easy == <<"E","a","s","y">>

D_Medium == <<"M","e","d","i","u","m">>

D_Hard == <<"H","a","r","d">>

\* C8: one item per input skill (duplicates and unknown names included);
\* every item has non-empty resources, a difficulty in {Easy, Medium, Hard}
\* taken from the fixed table (Medium when the skill is not in it) and the
\* estimated_time fixed by that difficulty.
C8_OneItemPerSkill ==
    Returned =>
        /\ Len(result) = Len(args.missing_skills)
        /\ \A s \in Range(args.missing_skills) :
               Count(Skills(result), s) = Count(args.missing_skills, s)
        /\ \A i \in 1..Len(result) :
               /\ result[i].resources # <<>>
               /\ result[i].difficulty \in {D_Easy, D_Medium, D_Hard}
               /\ result[i].difficulty = TableDifficulty(result[i].skill)
               /\ result[i].difficulty = D_Easy
                      => result[i].estimated_time = "1-2 weeks"
               /\ result[i].difficulty = D_Medium
                      => result[i].estimated_time = "3-4 weeks"
               /\ result[i].difficulty = D_Hard
                      => result[i].estimated_time = "6-8 weeks"

\* C8 witness: a path for a duplicated easy skill and an unknown skill
C8_Witness ==
    /\ Returned
    /\ args.missing_skills = <<S_Git, S_Rust, S_Git>>
    /\ Len(result) = 3
    /\ Count(Skills(result), S_Git) = 2
    /\ \A i \in 1..3 :
           /\ result[i].skill = S_Git => result[i].estimated_time = "1-2 weeks"
           /\ result[i].skill = S_Rust => result[i].difficulty = D_Medium

\* C9: an item has priority High iff its skill, lowercased and trimmed, is
\* in required_skills; every other item is Medium; no item is Low; with
\* required_skills omitted every item is Medium.
C9_HighIffRequired ==
    Returned =>
        \A i \in 1..Len(result) :
            /\ result[i].priority = "High"
                   <=> StrStrip(StrLower(result[i].skill))
                           \in Norm(OrEmpty(args.required_skills))
            /\ result[i].priority # "High" => result[i].priority = "Medium"
            /\ result[i].priority # "Low"
            /\ args.required_skills.is_none => result[i].priority = "Medium"

\* C9 witness: a required skill matched only after normalization is High
\* next to a Medium item
C9_Witness ==
    /\ Returned
    /\ args.missing_skills = <<S_Rust, S_git_padded>>
    /\ args.required_skills = Some(<<S_GIT>>)
    /\ result[1].skill = S_git_padded /\ result[1].priority = "High"
    /\ result[2].skill = S_Rust /\ result[2].priority = "Medium"

PriorityRank(priority) ==
    CASE priority = "High" -> 0 [] priority = "Medium" -> 1 [] OTHER -> 2

\* C10: the returned list is ordered High, Medium, Low, and items of one
\* priority keep the relative order their skills had in missing_skills.
C10_PrioritySortedStable ==
    Returned =>
        /\ \A i, j \in 1..Len(result) :
               i < j => PriorityRank(result[i].priority)
                            <= PriorityRank(result[j].priority)
        /\ \A prio \in {"High", "Medium", "Low"} :
               LET PriorityOf(s) ==
                       (CHOOSE it \in Range(result) : it.skill = s).priority
               IN  Skills(SelectSeq(result, LAMBDA it : it.priority = prio))
                   = SelectSeq(args.missing_skills,
                               LAMBDA s : PriorityOf(s) = prio)

\* C10 witness: two Medium skills given before a High one come out after
\* it, in their input order
C10_Witness ==
    /\ Returned
    /\ args.missing_skills = <<S_Rust, S_React_js, S_AWS>>
    /\ args.required_skills = Some(<<S_aws_padded>>)
    /\ Skills(result) = <<S_AWS, S_Rust, S_React_js>>

----------------------------------------------------------------------------
\* Properties of rank_internships

Listings(ranked) == [i \in 1..Len(ranked) |-> ranked[i].internship]

\* C6: the result is a permutation of the input listings (each occurrence
\* kept, equal listings and shared ids included), ordered by non-increasing
\* match_percentage, and every entry carries what calculate_skill_match
\* returns for its listing against the profile's skills.
C6_RankedPermutation ==
    Returned =>
        /\ Len(result) = Len(args.internships)
        /\ \A l \in ListingPool :
               Count(Listings(result), l) = Count(args.internships, l)
        /\ \A i, j \in 1..Len(result) :
               i < j => result[i].match_percentage >= result[j].match_percentage
        /\ \A i \in 1..Len(result) :
               LET l == result[i].internship
                   m == calculate_skill_match(args.user_profile.skills,
                                              l.required_skills,
                                              Some(l.preferred_skills))
               IN  /\ result[i].match_percentage = m.match_percentage
                   /\ result[i].matching_skills = m.matching_skills
                   /\ result[i].missing_skills = m.missing_skills

\* C6 witness: a listing given twice and one sharing its id are all ranked,
\* the preferred-skill match counted
C6_Witness ==
    /\ Returned
    /\ args.user_profile.skills = <<S_React>>
    /\ args.internships = <<L_Backend, L_FullStack, L_Backend>>
    /\ Listings(result) = <<L_FullStack, L_Backend, L_Backend>>
    /\ result[1].match_percentage = 30
    /\ result[2].match_percentage = 0

\* C7: the sort is stable: listings with equal match_percentage keep the
\* relative order they had in the input.
C7_RankStable ==
    Returned =>
        \A pct \in {result[i].match_percentage : i \in 1..Len(result)} :
            LET PctOf(l) == (CHOOSE e \in Range(result) :
                                 e.internship = l).match_percentage
            IN  Listings(SelectSeq(result, LAMBDA e : e.match_percentage = pct))
                = SelectSeq(args.internships, LAMBDA l : PctOf(l) = pct)

\* C7 witness: three different listings tie at 0 below a 100 and come out
\* in input order
C7_Witness ==
    /\ Returned
    /\ args.user_profile.skills = <<>>
    /\ args.internships = <<L_Frontend, L_Open, L_Backend>>
    /\ Listings(result) = <<L_Open, L_Frontend, L_Backend>>
    /\ result[2].match_percentage = result[3].match_percentage

----------------------------------------------------------------------------
\* Properties of calculate_trust_score and verify_internship

CountSeverity(red_flags, severity) ==
    Cardinality({i \in 1..Len(red_flags) : red_flags[i].severity = severity})

Bonus(flag, points) == IF flag THEN points ELSE 0

NoSignals == [official_domain |-> FALSE, known_platform |-> FALSE,
              company_verified |-> FALSE]

AllSignals == [official_domain |-> TRUE, known_platform |-> TRUE,
               company_verified |-> TRUE]

\* C1: the score is max(0, min(100, 50 + 20*official_domain
\* + 20*known_platform + 10*company_verified - 20*#HIGH - 10*#MEDIUM
\* - 5*#LOW)); no signals and no flags give 50, all signals and no flags
\* give 100, all signals and one HIGH flag give 80.
C1_TrustScoreFormula ==
    Returned =>
        LET raw == 50 + Bonus(args.signals.official_domain, 20)
                      + Bonus(args.signals.known_platform, 20)
                      + Bonus(args.signals.company_verified, 10)
                      - 20 * CountSeverity(args.red_flags, "high")
                      - 10 * CountSeverity(args.red_flags, "medium")
                      - 5 * CountSeverity(args.red_flags, "low")
            clamped == IF raw < 0 THEN 0 ELSE IF raw > 100 THEN 100 ELSE raw
        IN  /\ result = clamped
            /\ (args.signals = NoSignals /\ args.red_flags = <<>>)
                   => result = 50
            /\ (args.signals = AllSignals /\ args.red_flags = <<>>)
                   => result = 100
            /\ (args.signals = AllSignals /\ Len(args.red_flags) = 1
                    /\ CountSeverity(args.red_flags, "high") = 1)
                   => result = 80

\* C1 witness: no signals and flags of all three severities, clamped at 0
C1_Witness ==
    /\ Returned
    /\ args.signals = NoSignals
    /\ CountSeverity(args.red_flags, "high") = 2
    /\ CountSeverity(args.red_flags, "medium") = 1
    /\ CountSeverity(args.red_flags, "low") = 1
    /\ result = 0

\* C2: the returned status is Verified iff trust_score >= 80, UseCaution
\* iff 50 <= trust_score < 80, PotentialScam iff trust_score < 50; Pending
\* is never returned and trust_score is an integer in [0,100].
C2_StatusFromTrustScore ==
    Returned =>
        /\ result.trust_score \in 0..100
        /\ result.status \in {"Verified", "Use Caution", "Potential Scam"}
        /\ result.status # "Pending"
        /\ result.status = "Verified" <=> result.trust_score >= 80
        /\ result.status = "Use Caution"
               <=> (50 <= result.trust_score /\ result.trust_score < 80)
        /\ result.status = "Potential Scam" <=> result.trust_score < 50

\* C2 witness: a listing on the Verified boundary, its score of 90 lowered
\* to exactly 80 by the one flag for missing responsibilities
C2_Witness ==
    /\ Returned
    /\ args.internship.company = C_TechCorp
    /\ args.internship.company_domain = Some(D_techcorp)
    /\ args.internship.platform = Some(P_LinkedIn)
    /\ args.internship.responsibilities = <<>>
    /\ Len(result.red_flags) = 1
    /\ result.trust_score = 80
    /\ result.status = "Verified"

----------------------------------------------------------------------------
\* Properties of the calendar operations

CalendarReturned == Returned /\ args.op = "get_calendar_for_semester"

DeadlinesReturned == Returned /\ args.op = "get_upcoming_deadlines"

PreparationReturned == Returned /\ args.op = "calculate_preparation_window"

\* the month the call works with: the one supplied, else the clock's
MonthOf == IF args.month.is_none THEN args.now.month ELSE args.month.value

ValidSemester == args.semester \in 1..8

ValidMonth == MonthOf \in 1..12

\* C11: get_calendar_for_semester raises a ValueError, and returns no
\* calendar, exactly when the semester is outside 1..8 or the supplied
\* month is outside 1..12; for every semester in 1..8 and month in 1..12
\* it returns a calendar.
C11_InvalidArgumentsRaise ==
    CalendarReturned =>
        /\ HasRaised(result) <=>
               \/ args.semester \notin 1..8
               \/ ~args.month.is_none /\ args.month.value \notin 1..12
        /\ HasRaised(result) =>
               /\ result.raised = "ValueError"
               /\ DOMAIN result = {"raised", "message"}
        /\ ~HasRaised(result) =>
               /\ result.semester = args.semester
               /\ "current_status" \in DOMAIN result
               /\ "upcoming_deadlines" \in DOMAIN result

C11_Witness ==
    /\ CalendarReturned
    /\ args.semester = 3
    /\ args.month = Some(0)
    /\ HasRaised(result)
    /\ result.message = "Month must be between 1 and 12, got 0"

\* the apply and internship months of a semester, as sets
ApplySet(semester) == Range(SEMESTER_MAPPING[semester].apply_months)

InternshipSet(semester) == Range(SEMESTER_MAPPING[semester].internship_months)

\* the number of months from month to the nearest apply month strictly in
\* the future, wrapping past December
MonthsToNextApply(semester, month) ==
    CHOOSE n \in 1..12 :
        /\ (((month + n - 1) % 12) + 1) \in ApplySet(semester)
        /\ \A k \in 1..(n - 1) :
               (((month + k - 1) % 12) + 1) \notin ApplySet(semester)

\* C12: for semesters 3..8 and months 1..12 the status is OPEN if the month
\* is an apply month, else the internship-period message if it is an
\* internship month, else with N months to the next apply month (1..11)
\* "opens in N month(s)" iff N <= 2 and the preparation-phase message
\* otherwise.
C12_StatusResolution ==
    (CalendarReturned /\ args.semester \in 3..8 /\ ValidMonth) =>
        IF MonthOf \in ApplySet(args.semester)
        THEN result.current_status = "Application window is OPEN - Apply now!"
        ELSE IF MonthOf \in InternshipSet(args.semester)
        THEN result.current_status =
                 "Internship period - Focus on current internship or prepare for next cycle"
        ELSE LET N == MonthsToNextApply(args.semester, MonthOf)
             IN  /\ 1 <= N /\ N <= 11
                 /\ result.current_status =
                        IF N <= 2
                        THEN "Application window opens in " \o ToString(N)
                             \o " month(s) - Start preparing!"
                        ELSE "Preparation phase - " \o ToString(N)
                             \o " month(s) until application window"

C12_Witness ==
    /\ CalendarReturned
    /\ args.semester = 5
    /\ args.month = Some(6)
    /\ result.current_status =
           "Application window opens in 2 month(s) - Start preparing!"

\* C13: for semesters 3..8 and months 1..12 get_upcoming_deadlines returns
\* exactly three events, one of each type, in non-decreasing order of
\* (month_number - current month) mod 12; for semesters 1 and 2 it returns
\* the empty list.
C13_ThreeDeadlinesByDistance ==
    DeadlinesReturned =>
        /\ (args.semester \in 3..8 /\ ValidMonth) =>
               /\ Len(result) = 3
               /\ {result[i].type : i \in 1..3} =
                      {"Application Window Opens", "Application Window Closes",
                       "Internship Starts"}
               /\ \A i \in 1..2 :
                      (result[i].month_number - MonthOf) % 12
                          <= (result[i + 1].month_number - MonthOf) % 12
        /\ args.semester \in {1, 2} => result = <<>>

C13_Witness ==
    /\ DeadlinesReturned
    /\ args.semester = 5
    /\ args.month = Some(9)
    /\ Len(result) = 3
    /\ <<result[1].month_number, result[2].month_number,
         result[3].month_number>> = <<10, 1, 8>>

\* C14: the returned calendar carries the table values of its semester:
\* 1 and 2 Skill Building without windows, "Focus on skill development" and
\* no deadlines; 3, 4 Jan-Mar / May-Jul; 5, 6 Aug-Oct / Dec-Jan; 7 Jul-Sep /
\* Jan-Apr; 8 Ongoing / Flexible with all twelve months; and the semester
\* field equals the input.
C14_TableValues ==
    (CalendarReturned /\ ValidSemester /\ ValidMonth) =>
        LET s == args.semester
            Windows(aw, am, ip, im) ==
                /\ result.apply_window = aw
                /\ result.apply_months = am
                /\ result.internship_period = ip
                /\ result.internship_months = im
        IN  /\ ~HasRaised(result)
            /\ result.semester = s
            /\ s \in {1, 2} =>
                   /\ result.focus = F_SkillBuilding
                   /\ "apply_window" \notin DOMAIN result
                   /\ "internship_period" \notin DOMAIN result
                   /\ result.current_status = "Focus on skill development"
                   /\ result.upcoming_deadlines = <<>>
            /\ s \in {3, 4} =>
                   Windows("Jan-Mar", <<1, 2, 3>>, "May-Jul", <<5, 6, 7>>)
            /\ s \in {5, 6} =>
                   Windows("Aug-Oct", <<8, 9, 10>>, "Dec-Jan", <<12, 1>>)
            /\ s = 7 =>
                   Windows("Jul-Sep", <<7, 8, 9>>, "Jan-Apr", <<1, 2, 3, 4>>)
            /\ s = 8 =>
                   /\ result.apply_window = "Ongoing"
                   /\ result.internship_period = "Flexible"
                   /\ Range(result.apply_months) = 1..12
                   /\ Range(result.internship_months) = 1..12

C14_Witness ==
    /\ CalendarReturned
    /\ args.semester = 5
    /\ args.month = None
    /\ result.apply_window = "Aug-Oct"
    /\ result.internship_months = <<12, 1>>

\* C15: calculate_preparation_window returns null target, months and weeks
\* with the skill-building actions for semesters 1 and 2; for semesters 3..8
\* the target is the given month or else the first apply month,
\* months_to_prepare = (target - current month) mod 12, and the actions are
\* the interview-readiness list iff months <= 1, the portfolio list iff
\* 2 <= months <= 3, the longer-horizon list otherwise.
C15_PreparationWindow ==
    (PreparationReturned /\ ValidSemester) =>
        IF args.semester \in {1, 2}
        THEN /\ result.target_month = None
             /\ result.months_to_prepare = None
             /\ result.weeks_to_prepare = None
             /\ result.recommended_actions = SkillBuildingActions
        ELSE LET target ==
                     IF args.month.is_none
                     THEN SEMESTER_MAPPING[args.semester].apply_months[1]
                     ELSE args.month.value
                 months == (target - args.now.month) % 12
             IN  /\ target \in 1..12 => ~HasRaised(result)
                 /\ ~HasRaised(result) =>
                        /\ result.target_month = target
                        /\ result.months_to_prepare = months
                        /\ months \in 0..11
                        /\ (result.recommended_actions
                                = InterviewReadinessActions) <=> months <= 1
                        /\ (result.recommended_actions = PortfolioActions)
                               <=> (2 <= months /\ months <= 3)
                        /\ (result.recommended_actions = LongHorizonActions)
                               <=> months > 3

C15_Witness ==
    /\ PreparationReturned
    /\ args.semester = 3
    /\ args.month = None
    /\ args.now.month = 11
    /\ result.target_month = 1
    /\ result.months_to_prepare = 2
    /\ result.recommended_actions = PortfolioActions

----------------------------------------------------------------------------
\* Degenerate inputs of calculate_skill_match

\* C16: with no required skills the result is 100 with empty matching and
\* missing lists, whatever the user and preferred skills; with no user
\* skills and some required skills it is 0 with an empty matching list and
\* every required skill missing.
C16_DegenerateInputs ==
    Returned =>
        /\ args.required_skills = <<>> =>
               result = [match_percentage |-> 100,
                         matching_skills  |-> <<>>,
                         missing_skills   |-> <<>>]
        /\ (args.user_skills = <<>> /\ args.required_skills # <<>>) =>
               result = [match_percentage |-> 0,
                         matching_skills  |-> <<>>,
                         missing_skills   |-> args.required_skills]

C16_Witness ==
    /\ Returned
    /\ args.user_skills = <<>>
    /\ args.required_skills = <<>>
    /\ args.preferred_skills = Some(<<S_SQL, S_React>>)
    /\ result.match_percentage = 100
    /\ result.missing_skills = <<>>

----------------------------------------------------------------------------
\* Properties of check_domain_authenticity and detect_red_flags

DomainReturned == pc = "return" /\ args.op = "check_domain_authenticity"

FlagsReturned == pc = "return" /\ args.op = "detect_red_flags"

\* the company name lowercased, trimmed, with every trailing corporate
\* suffix removed, reduced to letters and digits
RECURSIVE AllSuffixesStripped(_)
AllSuffixesStripped(s) ==
    IF StripCorporateSuffix(s) = s THEN s
    ELSE AllSuffixesStripped(StripCorporateSuffix(s))

SuffixFreeName(company) ==
    AlnumOnly(AllSuffixesStripped(StrStrip(StrLower(company))))

\* some label of the domain that is not a listed TLD contains the name or
\* is contained in it
LabelMatches(name, dom) ==
    LET labels == StrSplit(dom, ".")
    IN  \E i \in 1..Len(labels) :
            /\ labels[i] \notin tlds
            /\ \/ StrContains(name, AlnumOnly(labels[i]))
               \/ StrContains(AlnumOnly(labels[i]), name)

\* absent, empty, whitespace-only or a free-email provider
RejectedDomain(domain) ==
    \/ ~Truthy(domain)
    \/ StrStrip(StrLower(domain.value)) = <<>>
    \/ StrStrip(StrLower(domain.value)) \in NON_OFFICIAL_DOMAINS

\* C17: check_domain_authenticity returns false for an absent, empty,
\* whitespace-only or free-email domain; for any other domain it returns
\* true exactly when a non-TLD label contains, or is contained in, the
\* company name with its corporate suffixes stripped, so that X, X Ltd and
\* X Pvt Ltd get the same answer for every domain.
C17_SuffixFreeNameDecides ==
    DomainReturned =>
        result = IF RejectedDomain(args.domain) THEN FALSE
                 ELSE LabelMatches(SuffixFreeName(args.company),
                                   StrStrip(StrLower(args.domain.value)))

\* the flags of one type in a result
FlagsOfType(flags, type) == {i \in 1..Len(flags) : flags[i].type = type}

\* title, company, stipend and the responsibilities as one lowercased text
CombinedText(internship) ==
    StrLower(internship.title \o <<" ">> \o internship.company \o <<" ">>
             \o internship.stipend \o <<" ">>
             \o StrJoin(internship.responsibilities))

KeywordOccurs(keywords, text) ==
    \E i \in 1..Len(keywords) : StrContains(keywords[i], text)

\* one flag of the type with the severity when the condition holds, none
\* otherwise
OneFlagIff(flags, type, severity, condition) ==
    /\ Cardinality(FlagsOfType(flags, type)) = IF condition THEN 1 ELSE 0
    /\ \A i \in FlagsOfType(flags, type) : flags[i].severity = severity

\* C18: detect_red_flags emits exactly one high registration_fee flag iff
\* a registration-fee keyword occurs in the combined lowercased text of
\* title, company, stipend and responsibilities, however many occur; exactly
\* one high whatsapp_only flag iff a WhatsApp-only keyword occurs there; and
\* exactly one high non_official_email flag iff the lowercased
\* company_domain is in the free-email set. No flag type appears twice.
C18_OneHighFlagPerKind ==
    FlagsReturned =>
        /\ OneFlagIff(result, "registration_fee", "high",
               KeywordOccurs(REGISTRATION_FEE_KEYWORDS,
                             CombinedText(args.internship)))
        /\ OneFlagIff(result, "whatsapp_only", "high",
               KeywordOccurs(WHATSAPP_ONLY_KEYWORDS,
                             CombinedText(args.internship)))
        /\ OneFlagIff(result, "non_official_email", "high",
               /\ ~args.internship.company_domain.is_none
               /\ StrLower(args.internship.company_domain.value)
                      \in NON_OFFICIAL_DOMAINS)
        /\ \A i, j \in 1..Len(result) :
               result[i].type = result[j].type => i = j

\* a listing with two registration-fee keywords, a WhatsApp-only keyword
\* and a free-email domain gets one flag of each kind
C18_Witness ==
    /\ FlagsReturned
    /\ args.internship.title = T_PayToApply
    /\ args.internship.responsibilities = <<Rs_Scam>>
    /\ args.internship.company_domain = Some(D_Gmail_upper)
    /\ Cardinality({i \in 1..Len(REGISTRATION_FEE_KEYWORDS) :
           StrContains(REGISTRATION_FEE_KEYWORDS[i],
                       CombinedText(args.internship))}) >= 2
    /\ Cardinality(FlagsOfType(result, "registration_fee")) = 1
    /\ Cardinality(FlagsOfType(result, "whatsapp_only")) = 1
    /\ Cardinality(FlagsOfType(result, "non_official_email")) = 1

\* the first number of a text: where it starts and ends, and its digits
\* before and after the decimal point
FirstAmount(text) ==
    LET start == CHOOSE i \in 1..Len(text) :
                     /\ IsDigit(text[i])
                     /\ \A j \in 1..(i - 1) : ~IsDigit(text[j])
        e2    == CommaGroupsEnd(text, DigitsEnd(text, start))
        e3    == IF /\ e2 + 2 <= Len(text)
                    /\ text[e2 + 1] = "."
                    /\ IsDigit(text[e2 + 2])
                 THEN DigitsEnd(text, e2 + 2)
                 ELSE e2
    IN  [last  |-> e3,
         whole |-> SelectSeq(SubSeq(text, start, e2), IsDigit),
         frac  |-> SubSeq(text, e2 + 2, e3)]

\* a k follows the character at index e, after optional whitespace
RECURSIVE KTrails(_, _)
KTrails(text, e) ==
    /\ e + 1 <= Len(text)
    /\ \/ text[e + 1] = "k"
       \/ text[e + 1] \in Whitespace /\ KTrails(text, e + 1)

\* the amount, in thousands when a k trails the number, is above the limit
AmountAboveLimit(stipend) ==
    LET text == StrLower(stipend)
    IN  /\ \E i \in 1..Len(text) : IsDigit(text[i])
        /\ LET a     == FirstAmount(text)
               scale == Pow10(Len(a.frac))
               units == IF KTrails(text, a.last) THEN 1000 ELSE 1
           IN  DecVal(a.whole \o a.frac) * units > UnrealisticStipend * scale

\* C19: detect_red_flags emits the medium unrealistic_stipend flag if and
\* only if the stipend text holds a numeric amount whose value, multiplied
\* by 1000 only when a "k" directly trails the number, is strictly above
\* 50,000; exactly 50,000, an amount at or below it without a trailing k
\* and a stipend without digits produce no such flag.
C19_TrailingKDecides ==
    FlagsReturned =>
        OneFlagIff(result, "unrealistic_stipend", "medium",
                   AmountAboveLimit(args.internship.stipend))

\* the vague keywords that occur in the joined lowercased responsibilities
VagueKeywordsIn(responsibilities) ==
    {VAGUE_DESCRIPTION_KEYWORDS[i] : i \in
        {j \in 1..Len(VAGUE_DESCRIPTION_KEYWORDS) :
            StrContains(VAGUE_DESCRIPTION_KEYWORDS[j],
                        StrLower(StrJoin(responsibilities)))}}

\* C20: detect_red_flags emits exactly one medium vague_description flag
\* when responsibilities is empty; when it is not empty the flag is emitted
\* if and only if two or more distinct vague keywords occur in the joined
\* lowercased responsibilities or the list has exactly one entry shorter
\* than 50 characters; two or more entries with fewer than two vague
\* keywords produce no such flag.
C20_VagueDescription ==
    FlagsReturned =>
        LET responsibilities == args.internship.responsibilities
        IN  OneFlagIff(result, "vague_description", "medium",
                \/ responsibilities = <<>>
                \/ Cardinality(VagueKeywordsIn(responsibilities)) >= 2
                \/ /\ Len(responsibilities) = 1
                   /\ Len(responsibilities[1]) < 50)

\* two entries that hold one vague keyword between them get no flag
C20_Witness ==
    /\ FlagsReturned
    /\ args.internship.responsibilities = <<Rs_Clear1, Rs_Vague2>>
    /\ Cardinality(VagueKeywordsIn(args.internship.responsibilities)) = 1
    /\ FlagsOfType(result, "vague_description") = {}

----------------------------------------------------------------------------
\* Sparse listings and the range of verify_internship

\* C21: a listing whose company_domain and platform are absent or empty
\* and whose responsibilities list is empty is verified without an error:
\* official_domain and known_platform are false, there is no
\* non_official_email flag, there is exactly one vague_description flag,
\* and the result carries a status and a trust score in 0..100.
C21_SparseListingVerified ==
    (/\ Returned
     /\ ~Truthy(args.internship.company_domain)
     /\ ~Truthy(args.internship.platform)
     /\ args.internship.responsibilities = <<>>) =>
        /\ result.verification_signals.official_domain = FALSE
        /\ result.verification_signals.known_platform = FALSE
        /\ FlagsOfType(result.red_flags, "non_official_email") = {}
        /\ Cardinality(FlagsOfType(result.red_flags, "vague_description")) = 1
        /\ result.trust_score \in 0..100
        /\ result.status \in {"Verified", "Use Caution", "Potential Scam"}

\* a listing with an empty domain, no platform and no responsibilities
C21_Witness ==
    /\ Returned
    /\ args.internship.company_domain = Some(<<>>)
    /\ args.internship.platform = None
    /\ args.internship.responsibilities = <<>>
    /\ args.internship.stipend = St_Unpaid
    /\ result.trust_score = 40
    /\ result.status = "Potential Scam"

\* the flags of one severity in a result
FlagsOfSeverity(flags, severity) ==
    {i \in 1..Len(flags) : flags[i].severity = severity}

\* C27: every trust score verify_internship returns is a multiple of 10 in
\* 0..90, never 100, and the status Verified is returned only when
\* official_domain and known_platform are both true, no high flag was
\* detected and at most one medium flag was detected.
C27_ScoreRangeAndVerified ==
    Returned =>
        /\ result.trust_score \in {10 * k : k \in 0..9}
        /\ result.status = "Verified" =>
               /\ result.verification_signals.official_domain
               /\ result.verification_signals.known_platform
               /\ FlagsOfSeverity(result.red_flags, "high") = {}
               /\ Cardinality(FlagsOfSeverity(result.red_flags, "medium")) <= 1

\* a listing with both signals and one medium flag is still Verified, at 80
C27_Witness ==
    /\ Returned
    /\ result.status = "Verified"
    /\ result.trust_score = 80
    /\ result.verification_signals.official_domain
    /\ result.verification_signals.known_platform
    /\ Cardinality(FlagsOfSeverity(result.red_flags, "medium")) = 1

----------------------------------------------------------------------------
\* Months of the deadline events and validation of the month argument

\* the month number of the event of a type in a deadline list
EventMonth(deadlines, type) ==
    LET i == CHOOSE i \in 1..Len(deadlines) : deadlines[i].type = type
    IN  deadlines[i].month_number

\* C23: for semesters 3..8 the window-opens event carries the first month
\* of the apply window, the window-closes event its last month, and the
\* internship-starts event the first month of the internship period, the
\* month in which the period begins, also when the period runs across the
\* year end (Dec-Jan for semesters 5 and 6).
C23_EventsCarryWindowMonths ==
    (DeadlinesReturned /\ args.semester \in 3..8 /\ ValidMonth) =>
        LET info == SEMESTER_MAPPING[args.semester]
        IN  /\ \A type \in {"Application Window Opens",
                            "Application Window Closes",
                            "Internship Starts"} :
                   \E i \in 1..Len(result) : result[i].type = type
            /\ EventMonth(result, "Application Window Opens")
                   = info.apply_months[1]
            /\ EventMonth(result, "Application Window Closes")
                   = info.apply_months[Len(info.apply_months)]
            /\ EventMonth(result, "Internship Starts")
                   = info.internship_months[1]

\* the lists of deadline events
DeadlineLists ==
    Seq([type : STRING, month : STRING, month_number : Int,
         description : Seq(STRING)])

\* C24: get_upcoming_deadlines with a valid semester and a current_month
\* outside 1..12 (such as 0 or 13) raises a validation error; it does not
\* return a deadline list and does not treat the value as a month.
C24_InvalidMonthReturnsNoList ==
    (DeadlinesReturned /\ ValidSemester /\ ~ValidMonth) =>
        result \notin DeadlineLists

----------------------------------------------------------------------------
\* The preparation window against the calendar, and its weeks

\* C28: for semesters 3..8, in every month for which
\* get_calendar_for_semester reports the application window OPEN,
\* calculate_preparation_window called in that month with the default
\* target reports months_to_prepare = 0, the status "Application window is
\* NOW" and the interview-readiness actions.
C28_OpenWindowMeansApplyNow ==
    (/\ PreparationReturned
     /\ args.semester \in 3..8
     /\ args.month = None
     /\ get_calendar_for_semester(args.semester, None, args.now).current_status
            = "Application window is OPEN - Apply now!") =>
        /\ result.months_to_prepare = 0
        /\ result.preparation_status
               = "Application window is NOW - Apply immediately!"
        /\ result.recommended_actions = InterviewReadinessActions

\* C29: for semesters 3..8, every current date and every target month the
\* weeks_to_prepare calculate_preparation_window returns is never negative,
\* also when the target month is the current month and the day is after
\* the first of the month.
C29_WeeksNeverNegative ==
    (PreparationReturned /\ args.semester \in 3..8 /\ ~HasRaised(result)) =>
        result.weeks_to_prepare >= 0

----------------------------------------------------------------------------
\* Monotonicity of calculate_skill_match

\* C30: calculate_skill_match is monotone in the user's skills: for a user
\* with more skills the match_percentage is not lower and the normalized
\* missing_skills are a subset of those for the fewer skills; and with
\* required skills, a match_percentage of 100 comes with no missing skill.
C30_MonotoneInUserSkills ==
    Returned =>
        /\ result.for_more.match_percentage >= result.for_user.match_percentage
        /\ NormalizedSet(result.for_more.missing_skills)
               \subseteq NormalizedSet(result.for_user.missing_skills)
        /\ \A r \in {result.for_user, result.for_more} :
               (args.required_skills # <<>> /\ r.match_percentage = 100)
                   => r.missing_skills = <<>>

\* one more skill lifts the match from 23 to 76 and leaves one skill missing
C30_Witness ==
    /\ Returned
    /\ args.user_skills = <<S_Python>>
    /\ args.more_skills = <<S_SQL>>
    /\ args.required_skills = <<S_Python, S_SQL, S_React>>
    /\ args.preferred_skills = Some(<<S_SQL>>)
    /\ result.for_user.match_percentage = 23
    /\ result.for_more.match_percentage = 76
    /\ NormalizedSet(result.for_more.missing_skills) = {_normalize_skill(S_React)}
    /\ NormalizedSet(result.for_user.missing_skills)
           = {_normalize_skill(S_SQL), _normalize_skill(S_React)}

----------------------------------------------------------------------------
\* Caching of results by the router

AllRequestsDone == \A r \in Requests : pc[r] = "done"

\* the requests that work on the key of request r
SameKey(r) ==
    {q \in Requests : /\ args[q].kind = args[r].kind
                      /\ args[q].internship_id = args[r].internship_id}

\* the request of a key that computed its result last
LatestOf(r) ==
    CHOOSE q \in SameKey(r) :
        \A p \in SameKey(r) : result[p].computed_at <= result[q].computed_at

\* C26: after any number of requests for the same key, run one after the
\* other or interleaved at their read-then-write steps, the store holds
\* exactly one record for the key, equal to the most recently computed
\* result, both for skill_matches by (user_id, internship_id) and for
\* verification_results by internship_id.
C26_OneRecordPerKey ==
    AllRequestsDone =>
        \A r \in Requests :
            select_rows(store[CacheTable(args[r])], args[r])
                = <<result[LatestOf(r)].values>>

----------------------------------------------------------------------------
\* Ownership of returned values

\* C25: every value an engine returns is freshly created and owned by the
\* caller alone: after the caller appended to a list of a returned calendar
\* or skill match, the caller's original inputs are unchanged and the same
\* call made again returns what it returned before the append.
C25_ReturnedValuesAreOwned ==
    Returned =>
        /\ args = result.inputs
        /\ result.later = result.returned

----------------------------------------------------------------------------
\* Engine calls running concurrently

\* what a call returns when it runs alone on the class tables as the
\* module defines them
RunAlone(a) ==
    CASE a.op = "get_calendar_for_semester" ->
             get_calendar_for_semester(a.semester, Some(a.current_month),
                                       a.now)
      [] a.op = "rank_internships" ->
             rank_internships(a.user_profile, a.internships)
      [] a.op = "verify_internship" -> verify_internship(a.internship)
      [] a.op = "calculate_skill_match" ->
             calculate_skill_match(a.user_skills, a.required_skills,
                                   a.preferred_skills)
      [] OTHER -> generate_learning_path(a.missing_skills, a.required_skills)

\* C22: engine calls running concurrently and interleaved at any point each
\* return exactly the result they return when run alone, and the shared
\* class table is unchanged at every point.
C22_ConcurrentCallsAsAlone ==
    /\ semester_mapping = SEMESTER_MAPPING
    /\ \A t \in Tasks :
           pc[t] = "return" => result[t].returned = RunAlone(args[t])

\* two calendar calls for the same semester and different months have both
\* returned, with different results
C22_Witness ==
    /\ \A t \in Tasks : pc[t] = "return"
    /\ \E t, u \in Tasks :
          /\ args[t].op = "get_calendar_for_semester"
          /\ args[u].op = "get_calendar_for_semester"
          /\ args[t].semester = args[u].semester
          /\ args[t].current_month # args[u].current_month
          /\ result[t].returned.current_status
                 # result[u].returned.current_status
          /\ result[t].returned.semester = args[t].semester

====
